---- MODULE Spec2Model ----
(***************************************************************************)
(* Model of the slide-translation add-in: run detection and paragraph      *)
(* extraction (formatting.ts), and the translation pipeline (ppt.ts).      *)
(*                                                                         *)
(* Strings are sequences of one-character strings, so that length, slice,  *)
(* split and concatenation are the sequence operations.  A value the host  *)
(* may report as null is Null or Some(v).                                  *)
(***************************************************************************)
EXTENDS Integers, Sequences, FiniteSets, TLC

VARIABLES
    phase,           \* which entry point this behaviour exercises
    \* --- run detection on one paragraph (formatting.ts) ---
    paragraphText,   \* the paragraph's text
    paragraphStart,  \* its offset in the shape's full text range
    charFonts,       \* host: raw font of each character of the full range
    unreadable,      \* host: attributes reported null on every probed range
    detected,        \* result of the last run-detection call on it
    \* --- extraction of one leaf shape (ppt.ts extractSlideTargets) ---
    shape,           \* host: the shape's id, name, text frame and text
    hostClamps,      \* host: an out-of-range getSubstring is clamped (else sync throws)
    extraction,      \* status and shapeTextTargets recorded by the call
    \* --- the pure steps of the pipeline (ppt.ts) on their own ---
    fnInput,         \* the argument(s) of the call
    fnOutput,        \* what the call returned
    \* --- one translateScope invocation (ppt.ts, taskpane.ts) ---
    deck,            \* host: the slides of the presentation
    settings,        \* the Settings the invocation was started with
    aborted,         \* abortSignal.aborted
    pc,              \* where translateScope stands
    slidePos,        \* the loop variable i of translateScope
    translationCache, \* key -> translatedRuns, for the whole invocation
    total,           \* translatedTotal
    preview,         \* the preview kept so far
    ctx,             \* locals of translateAndMaybeApplySlide and translateChunks
    hist,            \* history: requests sent, items and result mapping per slide
    status,          \* the text of the task pane's status line (setStatus)
    \* --- the task pane (taskpane.ts) ---
    pane             \* abortController, Cancel button, module-level settings

hostVars == <<charFonts, unreadable>>
runVars == <<paragraphText, paragraphStart, detected>>
extractVars == <<shape, hostClamps, extraction>>
fnVars == <<fnInput, fnOutput>>
scopeVars == <<status, deck, settings, aborted, pc, slidePos, translationCache, total, preview, ctx, hist>>

vars == <<phase, charFonts, unreadable, paragraphText, paragraphStart, detected,
          shape, hostClamps, extraction, fnInput, fnOutput,
          deck, settings, aborted, pc, slidePos, translationCache, total, preview,
          ctx, hist, status, pane>>

----------------------------------------------------------------------------
\* Bounds of the model

\* longest paragraph text / shape text enumerated
MaxLen == 3

\* longest shape name enumerated
MaxNameLen == 2

\* most runs in an enumerated paragraph or table cell
MaxRuns == 2

\* longest item list given to chunkByChars
MaxItems == 4

\* most paragraphs given to composeText
MaxParas == 3

\* most slides in an enumerated deck
MaxSlides == 2

----------------------------------------------------------------------------
\* Generic helpers

Null == <<>>
Some(v) == <<v>>

\* a ?? d
Coalesce(a, d) == IF a = Null THEN d ELSE a[1]

\* all sequences over S of length 0..n
SeqsUpTo(S, n) == UNION {[1..k -> S] : k \in 0..n}

RECURSIVE Concat(_)
\* concatenation of a sequence of sequences (Array.join(""))
Concat(ss) == IF ss = <<>> THEN <<>> ELSE Head(ss) \o Concat(Tail(ss))

RECURSIVE JoinWith(_, _)
\* Array.prototype.join(sep) on a sequence of strings
JoinWith(ss, sep) ==
    IF ss = <<>> THEN <<>>
    ELSE IF Len(ss) = 1 THEN ss[1]
    ELSE ss[1] \o sep \o JoinWith(Tail(ss), sep)

\* String.prototype.slice(from, to) for 0 <= from <= to, zero-based, clamped
Slice(s, from, to) ==
    LET hi == IF to > Len(s) THEN Len(s) ELSE to
    IN  IF from >= hi THEN <<>> ELSE SubSeq(s, from + 1, hi)

----------------------------------------------------------------------------
\* FontSnapshot (types.ts) and the host's ShapeFont

FontAttrs ==
    <<"allCaps", "bold", "color", "doubleStrikethrough", "italic", "name",
      "size", "smallCaps", "strikethrough", "subscript", "superscript",
      "underline">>

AttrSet == {FontAttrs[i] : i \in 1..Len(FontAttrs)}

defaultFontSnapshot ==
    [allCaps |-> FALSE, bold |-> FALSE, color |-> "#FFFFFF",
     doubleStrikethrough |-> FALSE, italic |-> FALSE, name |-> "",
     size |-> 12, smallCaps |-> FALSE, strikethrough |-> FALSE,
     subscript |-> FALSE, superscript |-> FALSE, underline |-> "None"]

safeFontSnapshot(font) ==
    [allCaps |-> Coalesce(font["allCaps"], FALSE),
     bold |-> Coalesce(font["bold"], FALSE),
     color |-> Coalesce(font["color"], "#FFFFFF"),
     doubleStrikethrough |-> Coalesce(font["doubleStrikethrough"], FALSE),
     italic |-> Coalesce(font["italic"], FALSE),
     name |-> Coalesce(font["name"], ""),
     size |-> Coalesce(font["size"], 12),
     smallCaps |-> Coalesce(font["smallCaps"], FALSE),
     strikethrough |-> Coalesce(font["strikethrough"], FALSE),
     subscript |-> Coalesce(font["subscript"], FALSE),
     superscript |-> Coalesce(font["superscript"], FALSE),
     underline |-> Coalesce(font["underline"], "None")]

\* String(v) of a field value inside Array.join
BoolStr(b) == IF b THEN "true" ELSE "false"

\* Mutant of fontKey: the bold field is left out of the key.
fontKeyNoBold(f) ==
    JoinWith(<< <<BoolStr(f.allCaps)>>, <<f.color>>,
                <<BoolStr(f.doubleStrikethrough)>>, <<BoolStr(f.italic)>>,
                <<f.name>>, <<ToString(f.size)>>, <<BoolStr(f.smallCaps)>>,
                <<BoolStr(f.strikethrough)>>, <<BoolStr(f.subscript)>>,
                <<BoolStr(f.superscript)>>, <<f.underline>> >>, <<"|">>)

\* fontKey: the twelve fields, stringified, joined with "|"
fontKey(f) ==
    JoinWith(<< <<BoolStr(f.allCaps)>>, <<BoolStr(f.bold)>>, <<f.color>>,
                <<BoolStr(f.doubleStrikethrough)>>, <<BoolStr(f.italic)>>,
                <<f.name>>, <<ToString(f.size)>>, <<BoolStr(f.smallCaps)>>,
                <<BoolStr(f.strikethrough)>>, <<BoolStr(f.subscript)>>,
                <<BoolStr(f.superscript)>>, <<f.underline>> >>, <<"|">>)

\* Fonts the modelled deck uses
BoldFont == [defaultFontSnapshot EXCEPT !.bold = TRUE]
RedFont == [defaultFontSnapshot EXCEPT !.color = "#FF0000"]
ItalicFont == [defaultFontSnapshot EXCEPT !.italic = TRUE, !.size = 18]
Palette == {defaultFontSnapshot, BoldFont, RedFont}

----------------------------------------------------------------------------
\* Host: TextRange.getSubstring(start, length).font after load + sync.
\* An attribute is null when the characters of the range differ on it, or
\* when the host cannot read it at all (unreadable).

\* A range that reaches past the end of the text covers the characters that
\* exist (a host that rejects such a range instead is modelled where the
\* fetch is awaited).

hostRangeFont(fonts, unread, start, length) ==
    LET last == IF start + length > Len(fonts) THEN Len(fonts) ELSE start + length
    IN  [a \in AttrSet |->
            IF a \in unread \/ start + 1 > last THEN Null
            ELSE LET first == fonts[start + 1][a]
                 IN  IF \A i \in (start + 1)..last : fonts[i][a] = first
                     THEN Some(first)
                     ELSE Null]

----------------------------------------------------------------------------
\* Run detection (formatting.ts)

RECURSIVE scanLoopByReference(_, _, _, _, _, _)
\* Mutant of scanLoop: fonts compared by object identity, so never equal.
scanLoopByReference(text, fontsAt, i, curFont, curText, runs) ==
    IF i > Len(text) THEN Append(runs, [text |-> curText, font |-> curFont])
    ELSE scanLoopByReference(text, fontsAt, i + 1, fontsAt[i], <<text[i]>>,
                             Append(runs, [text |-> curText, font |-> curFont]))

RECURSIVE scanLoop(_, _, _, _, _, _)
\* The merge loop of extractRunsByCharScan from index i (1-based) on, with
\* the current run (curFont, curText) and the runs pushed so far.
scanLoop(text, fontsAt, i, curFont, curText, runs) ==
    IF i > Len(text) THEN Append(runs, [text |-> curText, font |-> curFont])
    ELSE LET f == fontsAt[i]
         IN  IF fontKey(curFont) = fontKey(f)
             THEN scanLoop(text, fontsAt, i + 1, curFont,
                           Append(curText, text[i]), runs)
             ELSE scanLoop(text, fontsAt, i + 1, f, <<text[i]>>,
                           Append(runs, [text |-> curText, font |-> curFont]))

\* extractRunsByCharScan: one batched fetch of every character's font, then
\* the left-to-right merge.
extractRunsByCharScan(fonts, unread, pStart, text) ==
    LET n == Len(text)
        fontsAt == [i \in 1..n |->
                      safeFontSnapshot(hostRangeFont(fonts, unread, pStart + i - 1, 1))]
    IN  [runs |-> IF n = 0 THEN <<>>
                  ELSE scanLoop(text, fontsAt, 2, fontsAt[1], <<text[1]>>, <<>>),
         fetches |-> 1]

RECURSIVE splitOffByOne(_, _, _, _)
\* Mutant of split: the second half starts one character too far.
splitOffByOne(fonts, unread, start, length) ==
    LET raw == hostRangeFont(fonts, unread, start, length)
        mixed == \E a \in AttrSet : raw[a] = Null
    IN  IF ~mixed \/ length <= 1
        THEN << [start |-> start, length |-> length, font |-> safeFontSnapshot(raw)] >>
        ELSE LET mid == length \div 2
             IN  splitOffByOne(fonts, unread, start, mid)
                   \o splitOffByOne(fonts, unread, start + mid + 1, length - mid - 1)

\* const mid = Math.floor(length / 2)
midOf(length) == length \div 2

RECURSIVE split(_, _, _, _)
\* split(start, length) of extractRunsByBinarySplit: the spans it pushes,
\* in push order; one fetch per call.
split(fonts, unread, start, length) ==
    LET raw == hostRangeFont(fonts, unread, start, length)
        mixed == \E a \in AttrSet : raw[a] = Null
    IN  IF ~mixed \/ length <= 1
        THEN << [start |-> start, length |-> length, font |-> safeFontSnapshot(raw)] >>
        ELSE LET mid == midOf(length)
             IN  split(fonts, unread, start, mid)
                   \o split(fonts, unread, start + mid, length - mid)

RECURSIVE insertSpan(_, _)
insertSpan(sorted, s) ==
    IF sorted = <<>> THEN <<s>>
    ELSE IF s.start < Head(sorted).start THEN <<s>> \o sorted
    ELSE <<Head(sorted)>> \o insertSpan(Tail(sorted), s)

RECURSIVE sortSpans(_)
\* spans.sort((a, b) => a.start - b.start), a stable sort
sortSpans(spans) ==
    IF spans = <<>> THEN <<>>
    ELSE insertSpan(sortSpans(SubSeq(spans, 1, Len(spans) - 1)), spans[Len(spans)])

RECURSIVE mergeSpansByReference(_, _, _, _, _)
\* Mutant of mergeSpans: fonts compared by object identity, so never equal.
mergeSpansByReference(text, pStart, spans, last, out) ==
    IF spans = <<>> THEN Append(out, last)
    ELSE LET s == Head(spans)
             localStart == s.start - pStart
             piece == Slice(text, localStart, localStart + s.length)
         IN  mergeSpansByReference(text, pStart, Tail(spans),
                                   [text |-> piece, font |-> s.font], Append(out, last))

RECURSIVE mergeSpans(_, _, _, _, _)
\* The merge loop of extractRunsByBinarySplit over the sorted spans.
mergeSpans(text, pStart, spans, last, out) ==
    IF spans = <<>> THEN Append(out, last)
    ELSE LET s == Head(spans)
             localStart == s.start - pStart
             piece == Slice(text, localStart, localStart + s.length)
         IN  IF fontKey(last.font) = fontKey(s.font)
             THEN mergeSpans(text, pStart, Tail(spans),
                             [last EXCEPT !.text = last.text \o piece], out)
             ELSE mergeSpans(text, pStart, Tail(spans),
                             [text |-> piece, font |-> s.font], Append(out, last))

extractRunsByBinarySplit(fonts, unread, pStart, text) ==
    LET spans == sortSpans(split(fonts, unread, pStart, Len(text)))
        first == Head(spans)
        lStart == first.start - pStart
    IN  [runs |-> mergeSpans(text, pStart, Tail(spans),
                             [text |-> Slice(text, lStart, lStart + first.length),
                              font |-> first.font], <<>>),
         fetches |-> Len(spans) + (Len(spans) - 1)]

MAX_CHAR_SCAN == 1500

\* Mutant of extractRunsByFont: no special case for the empty paragraph.
extractRunsByFontNoEmptyCase(fonts, unread, pStart, text) ==
    IF Len(text) <= MAX_CHAR_SCAN
    THEN extractRunsByCharScan(fonts, unread, pStart, text)
    ELSE extractRunsByBinarySplit(fonts, unread, pStart, text)

extractRunsByFont(fonts, unread, pStart, text) ==
    LET n == Len(text)
    IN  IF n = 0
        THEN [runs |-> << [text |-> <<>>, font |-> defaultFontSnapshot] >>,
              fetches |-> 0]
        ELSE IF n <= MAX_CHAR_SCAN
        THEN extractRunsByCharScan(fonts, unread, pStart, text)
        ELSE extractRunsByBinarySplit(fonts, unread, pStart, text)

----------------------------------------------------------------------------
\* Paragraph extraction (formatting.ts) and extractSlideTargets (ppt.ts)

WhitespaceChars == {" ", "\n", "\t"}

\* String.prototype.trim
RECURSIVE trimStart(_)
trimStart(s) ==
    IF s # <<>> /\ Head(s) \in WhitespaceChars THEN trimStart(Tail(s)) ELSE s

RECURSIVE trimEnd(_)
trimEnd(s) ==
    IF s # <<>> /\ s[Len(s)] \in WhitespaceChars
    THEN trimEnd(SubSeq(s, 1, Len(s) - 1)) ELSE s

trim(s) == trimEnd(trimStart(s))

RECURSIVE splitLoop(_, _, _)
splitLoop(s, sep, cur) ==
    IF s = <<>> THEN <<cur>>
    ELSE IF Head(s) = sep THEN <<cur>> \o splitLoop(Tail(s), sep, <<>>)
    ELSE splitLoop(Tail(s), sep, Append(cur, Head(s)))

\* String.prototype.split(sep) for a one-character separator
splitOn(s, sep) == splitLoop(s, sep, <<>>)

RECURSIVE decimal(_)
\* a number inside a template literal: its decimal digits
decimal(n) ==
    IF n < 10 THEN <<ToString(n)>> ELSE decimal(n \div 10) \o <<ToString(n % 10)>>

RECURSIVE joinPath(_)
\* groupPath.join("::")
joinPath(groupPath) ==
    IF groupPath = <<>> THEN <<>>
    ELSE IF Len(groupPath) = 1 THEN groupPath[1]
    ELSE groupPath[1] \o <<":", ":">> \o joinPath(Tail(groupPath))

\* Mutant of shapeKey: the group path and the id are joined without "::".
shapeKeyUnseparated(shapeId, groupPath) ==
    Concat(groupPath) \o shapeId

\* shapeKey(shapeId, groupPath)
shapeKey(shapeId, groupPath) ==
    IF groupPath # <<>> THEN joinPath(groupPath) \o <<":", ":">> \o shapeId
    ELSE shapeId

\* `s${slideIndex}_shape${shapeId}_p${p}`
paragraphId(slideIndex, shapeId, p) ==
    <<"s">> \o decimal(slideIndex) \o <<"_", "s", "h", "a", "p", "e">> \o shapeId
        \o <<"_", "p">> \o decimal(p)

\* `s${slideIndex}_shape${shapeRef}_cell${r}_${c}`
cellId(slideIndex, shapeRef, r, c) ==
    <<"s">> \o decimal(slideIndex) \o <<"_", "s", "h", "a", "p", "e">> \o shapeRef
        \o <<"_", "c", "e", "l", "l">> \o decimal(r) \o <<"_">> \o decimal(c)

RECURSIVE paragraphLoop(_, _, _, _, _, _, _)
\* The loop of extractShapeTextParagraphs from paragraph p (0-based) on.
paragraphLoop(fonts, unread, slideIndex, shapeId, paras, p, cursor) ==
    IF p >= Len(paras) THEN <<>>
    ELSE LET pText == paras[p + 1]
             pStart == cursor
             runs == extractRunsByFont(fonts, unread, pStart, pText).runs
             next == cursor + Len(pText) + (IF p < Len(paras) - 1 THEN 1 ELSE 0)
         IN  << [id |-> paragraphId(slideIndex, shapeId, p),
                 originalCharCount |-> Len(pText),
                 runs |-> runs,
                 paragraphFormat |-> Null] >>
               \o paragraphLoop(fonts, unread, slideIndex, shapeId, paras, p + 1, next)

\* extractShapeTextParagraphs(context, textRange, slideIndex, shapeId, knownText):
\* rangeText is textRange.text, fonts the fonts of the range's characters.
extractShapeTextParagraphs(fonts, unread, rangeText, slideIndex, shapeId, knownText) ==
    LET text == IF knownText = Null THEN rangeText ELSE knownText[1]
    IN  IF text = <<>> THEN <<>>
        ELSE paragraphLoop(fonts, unread, slideIndex, shapeId, splitOn(text, "\n"), 0, 0)

\* The fifth argument extractSlideTargets passes to extractShapeTextParagraphs
knownTextArg(sh) == Some(sh.name)

\* Whether every font fetch of the call addresses characters of the range:
\* the last character probed is the last character of the split text.
probesInRange(fonts, text) == Len(text) <= Len(fonts)

\* The visitor of extractSlideTargets on a shape that is not a table
visitShape(fonts, unread, clamps, slideIndex, sh) ==
    IF ~sh.hasFrame \/ sh.text = <<>>
    THEN [status |-> "done", shapeTextTargets |-> <<>>]
    ELSE LET known == knownTextArg(sh)
             text == IF known = Null THEN sh.text ELSE known[1]
             paragraphs == extractShapeTextParagraphs(fonts, unread, sh.text,
                                                      slideIndex, sh.id, known)
             useful == \E i \in 1..Len(paragraphs) :
                          \E j \in 1..Len(paragraphs[i].runs) :
                              Len(trim(paragraphs[i].runs[j].text)) > 0
         IN  IF ~clamps /\ ~probesInRange(fonts, text)
             THEN [status |-> "rejected", shapeTextTargets |-> <<>>]
             ELSE IF ~useful
             THEN [status |-> "done", shapeTextTargets |-> <<>>]
             ELSE [status |-> "done",
                   shapeTextTargets |->
                     << [kind |-> "shapeText", shapeId |-> sh.id,
                         shapeName |-> sh.name, groupPath |-> <<>>,
                         paragraphs |-> paragraphs] >>]

FnIdle == fnInput = <<>> /\ fnOutput = <<>>

NoCtx == <<>>

\* the task pane is not part of the specification
PaneOff == <<>>

ScopeIdle ==
    /\ pane = PaneOff
    /\ deck = <<>> /\ settings = <<>> /\ aborted = FALSE /\ pc = "off"
    /\ slidePos = 0 /\ translationCache = <<>> /\ total = 0 /\ preview = <<>>
    /\ ctx = NoCtx /\ hist = <<>> /\ status = "idle"

ExtractIdle ==
    /\ shape = [id |-> <<>>, name |-> <<>>, hasFrame |-> FALSE, text |-> <<>>]
    /\ hostClamps = TRUE
    /\ extraction = [status |-> "idle", shapeTextTargets |-> <<>>]

RunsIdle ==
    /\ paragraphText = <<>>
    /\ paragraphStart = 0
    /\ detected = [by |-> "none", runs |-> <<>>, fetches |-> 0]

NameChars == {"T", "\n"}
TextChars == {"a", "\n"}

InitExtract ==
    /\ phase = "extract"
    /\ RunsIdle
    /\ unreadable \in {{}, {"color"}}
    /\ hostClamps \in BOOLEAN
    /\ \E nm \in SeqsUpTo(NameChars, MaxNameLen), tx \in SeqsUpTo(TextChars, MaxLen),
          fr \in BOOLEAN :
         /\ shape = [id |-> <<"7">>, name |-> nm, hasFrame |-> fr, text |-> tx]
         /\ charFonts \in [1..Len(tx) -> {defaultFontSnapshot, BoldFont}]
         /\ fr \/ tx = <<>>
    /\ extraction = [status |-> "idle", shapeTextTargets |-> <<>>]
    /\ FnIdle
    /\ ScopeIdle

\* extractSlideTargets(slideIndex, ...) on a slide that holds the shape
ExtractSlideTargets ==
    /\ phase = "extract"
    /\ extraction.status = "idle"
    /\ extraction' = visitShape(charFonts, unreadable, hostClamps, 0, shape)
    /\ UNCHANGED <<phase, pane, hostVars, runVars, shape, hostClamps, fnVars, scopeVars>>

NextExtract == ExtractSlideTargets

SpecExtract == InitExtract /\ [][NextExtract]_vars

----------------------------------------------------------------------------
\* Text classes (utils/text: isNonTranslatable)

DigitChars == {"0", "1", "2", "3", "4", "5", "6", "7", "8", "9"}

\* The punctuation and symbols of the third regular expression; the four
\* characters outside ASCII are written by name.
SymbolChars ==
    {".", ",", "%", "+", "-", "EN DASH", "EM DASH", "(", ")", "[", "]", "{", "}",
     "<", ">", ":", ";", "!", "?", "/", "\\", "|", "@", "#", "^", "&", "*", "=",
     "~", "`", "'", "\"", "EURO", "$", "POUND", "YEN"}

ProtectedClass == WhitespaceChars \cup DigitChars \cup SymbolChars

AllIn(text, S) == \A i \in 1..Len(text) : text[i] \in S

\* Mutant of isNonTranslatable: the protected-character test is missing.
isNonTranslatableBlankOnly(text) ==
    IF text = <<>> THEN TRUE
    ELSE AllIn(text, WhitespaceChars)

isNonTranslatable(text) ==
    IF text = <<>> THEN TRUE
    ELSE IF AllIn(text, WhitespaceChars) THEN TRUE
    ELSE IF AllIn(text, ProtectedClass) THEN TRUE
    ELSE FALSE

----------------------------------------------------------------------------
\* buildTranslateItems and chunkByChars (ppt.ts)

\* runs.map((r, idx) => ({ index: idx, text: r.text }))
indexedRuns(runs) == [i \in 1..Len(runs) |-> [index |-> i - 1, text |-> runs[i].text]]

isSkippable(runs) == \A i \in 1..Len(runs) : isNonTranslatable(runs[i].text)

RECURSIVE paragraphItems(_)
paragraphItems(ps) ==
    IF ps = <<>> THEN <<>>
    ELSE LET p == Head(ps)
             runs == indexedRuns(p.runs)
         IN  (IF isSkippable(runs) THEN <<>>
              ELSE << [paragraphId |-> p.id,
                       originalChars |-> p.originalCharCount,
                       runs |-> runs] >>)
               \o paragraphItems(Tail(ps))

RECURSIVE shapeItems(_)
shapeItems(ts) ==
    IF ts = <<>> THEN <<>>
    ELSE paragraphItems(Head(ts).paragraphs) \o shapeItems(Tail(ts))

RECURSIVE cellItems(_)
cellItems(ts) ==
    IF ts = <<>> THEN <<>>
    ELSE LET t == Head(ts)
             runs == indexedRuns(t.runs)
         IN  (IF isSkippable(runs) THEN <<>>
              ELSE << [paragraphId |-> t.paragraphId,
                       originalChars |-> t.originalChars,
                       runs |-> runs] >>)
               \o cellItems(Tail(ts))

buildTranslateItems(targets) ==
    shapeItems(targets.shapeTextTargets) \o cellItems(targets.tableCellTargets)

DefaultMaxChars == 12000
DefaultMaxItems == 60

RECURSIVE chunkLoopOffByOne(_, _, _, _, _, _)
\* Mutant of chunkLoop: the item-count test is > instead of >=.
chunkLoopOffByOne(items, maxChars, maxItems, chunks, current, sum) ==
    IF items = <<>>
    THEN IF current # <<>> THEN Append(chunks, current) ELSE chunks
    ELSE LET item == Head(items)
             flush == Len(current) > maxItems \/ sum + item.originalChars > maxChars
             chunks1 == IF flush /\ current # <<>> THEN Append(chunks, current) ELSE chunks
             current1 == IF flush THEN <<>> ELSE current
             sum1 == IF flush THEN 0 ELSE sum
         IN  chunkLoopOffByOne(Tail(items), maxChars, maxItems, chunks1,
                               Append(current1, item), sum1 + item.originalChars)

RECURSIVE chunkLoopLosingFlush(_, _, _, _, _, _)
\* Mutant of chunkLoop: on a flush the current chunk is dropped, not pushed.
chunkLoopLosingFlush(items, maxChars, maxItems, chunks, current, sum) ==
    IF items = <<>>
    THEN IF current # <<>> THEN Append(chunks, current) ELSE chunks
    ELSE LET item == Head(items)
             flush == Len(current) >= maxItems \/ sum + item.originalChars > maxChars
             current1 == IF flush THEN <<>> ELSE current
             sum1 == IF flush THEN 0 ELSE sum
         IN  chunkLoopLosingFlush(Tail(items), maxChars, maxItems, chunks,
                                  Append(current1, item), sum1 + item.originalChars)

RECURSIVE chunkLoop(_, _, _, _, _, _)
\* The loop of chunkByChars with its three locals, and the final flush.
chunkLoop(items, maxChars, maxItems, chunks, current, sum) ==
    IF items = <<>>
    THEN IF current # <<>> THEN Append(chunks, current) ELSE chunks
    ELSE LET item == Head(items)
             flush == Len(current) >= maxItems \/ sum + item.originalChars > maxChars
             chunks1 == IF flush /\ current # <<>> THEN Append(chunks, current) ELSE chunks
             current1 == IF flush THEN <<>> ELSE current
             sum1 == IF flush THEN 0 ELSE sum
         IN  chunkLoop(Tail(items), maxChars, maxItems, chunks1,
                       Append(current1, item), sum1 + item.originalChars)

chunkByChars(items, maxChars, maxItems) ==
    chunkLoop(items, maxChars, maxItems, <<>>, <<>>, 0)

----------------------------------------------------------------------------
\* Recomposition (formatting.ts applyRunTranslations, ppt.ts composeText)

RECURSIVE leadingWs(_)
\* original.match(/^\s+/)?.[0] ?? ""
leadingWs(s) ==
    IF s # <<>> /\ Head(s) \in WhitespaceChars
    THEN <<Head(s)>> \o leadingWs(Tail(s)) ELSE <<>>

RECURSIVE trailingWs(_)
\* original.match(/\s+$/)?.[0] ?? ""
trailingWs(s) ==
    IF s # <<>> /\ s[Len(s)] \in WhitespaceChars
    THEN trailingWs(SubSeq(s, 1, Len(s) - 1)) \o <<s[Len(s)]>> ELSE <<>>

\* Mutant of preserveWhitespace: the translated text is not trimmed.
preserveWhitespaceNoTrim(original, translated) ==
    leadingWs(original) \o translated \o trailingWs(original)

preserveWhitespace(original, translated) ==
    leadingWs(original) \o trim(translated) \o trailingWs(original)

RECURSIVE mapGet(_, _)
\* new Map(translatedRuns.map(r => [r.index, r.text])).get(idx): the last
\* entry with that index, or Null
mapGet(translatedRuns, idx) ==
    IF translatedRuns = <<>> THEN Null
    ELSE LET r == translatedRuns[Len(translatedRuns)]
         IN  IF r.index = idx THEN Some(r.text)
             ELSE mapGet(SubSeq(translatedRuns, 1, Len(translatedRuns) - 1), idx)

\* Mutant of applyRunTranslations: non-translatable runs are replaced too.
applyRunTranslationsNoGuard(paragraph, translatedRuns) ==
    [paragraph EXCEPT !.runs =
        [i \in 1..Len(paragraph.runs) |->
            LET r == paragraph.runs[i]
                t == mapGet(translatedRuns, i - 1)
            IN  IF t = Null THEN r
                ELSE [r EXCEPT !.text = preserveWhitespace(r.text, t[1])]]]

applyRunTranslations(paragraph, translatedRuns) ==
    [paragraph EXCEPT !.runs =
        [i \in 1..Len(paragraph.runs) |->
            LET r == paragraph.runs[i]
                t == mapGet(translatedRuns, i - 1)
            IN  IF isNonTranslatable(r.text) THEN r
                ELSE IF t = Null THEN r
                ELSE [r EXCEPT !.text = preserveWhitespace(r.text, t[1])]]]

RECURSIVE composeRunsNoAdvance(_, _)
\* Mutant of composeRuns: the offset is not advanced by the run's length.
composeRunsNoAdvance(runs, offset) ==
    IF runs = <<>> THEN <<>>
    ELSE << [start |-> offset, length |-> Len(Head(runs).text), font |-> Head(runs).font] >>
           \o composeRunsNoAdvance(Tail(runs), offset)

RECURSIVE composeRuns(_, _)
\* The inner loop of composeText: the run spans of one paragraph from offset
composeRuns(runs, offset) ==
    IF runs = <<>> THEN <<>>
    ELSE << [start |-> offset, length |-> Len(Head(runs).text), font |-> Head(runs).font] >>
           \o composeRuns(Tail(runs), offset + Len(Head(runs).text))

RECURSIVE composeLoopTrailingJoiner(_, _, _, _, _)
\* Mutant of composeLoop: a joiner follows the last paragraph too.
composeLoopTrailingJoiner(paragraphs, keepLineBreaks, i, offset, acc) ==
    IF i >= Len(paragraphs) THEN acc
    ELSE LET p == paragraphs[i + 1]
             pText == Concat([j \in 1..Len(p.runs) |-> p.runs[j].text])
             pLen == Len(pText)
             joiner == IF keepLineBreaks THEN <<"\n">> ELSE <<" ">>
         IN  composeLoopTrailingJoiner(paragraphs, keepLineBreaks, i + 1,
                 offset + pLen + Len(joiner),
                 [fullText |-> acc.fullText \o pText \o joiner,
                  paragraphSpans |-> Append(acc.paragraphSpans,
                      [start |-> offset, length |-> pLen, format |-> p.paragraphFormat]),
                  runSpans |-> acc.runSpans \o composeRuns(p.runs, offset)])

RECURSIVE composeLoop(_, _, _, _, _)
\* The outer loop of composeText from paragraph i (0-based) on
composeLoop(paragraphs, keepLineBreaks, i, offset, acc) ==
    IF i >= Len(paragraphs) THEN acc
    ELSE LET p == paragraphs[i + 1]
             pText == Concat([j \in 1..Len(p.runs) |-> p.runs[j].text])
             pLen == Len(pText)
             more == i < Len(paragraphs) - 1
             joiner == IF keepLineBreaks /\ more THEN <<"\n">>
                       ELSE IF ~keepLineBreaks /\ more THEN <<" ">>
                       ELSE <<>>
         IN  composeLoop(paragraphs, keepLineBreaks, i + 1, offset + pLen + Len(joiner),
                 [fullText |-> acc.fullText \o pText \o joiner,
                  paragraphSpans |-> Append(acc.paragraphSpans,
                      [start |-> offset, length |-> pLen, format |-> p.paragraphFormat]),
                  runSpans |-> acc.runSpans \o composeRuns(p.runs, offset)])

composeText(paragraphs, keepLineBreaks) ==
    composeLoop(paragraphs, keepLineBreaks, 0, 0,
                [fullText |-> <<>>, paragraphSpans |-> <<>>, runSpans |-> <<>>])

----------------------------------------------------------------------------
\* Deduplication and fan-out (ppt.ts translateAndMaybeApplySlide)

\* translateKey: JSON.stringify of the list of run texts.  The encoding of
\* a list of strings is one-to-one, so the key is the list itself.
translateKey(item) == [i \in 1..Len(item.runs) |-> item.runs[i].text]

\* Map.set
MapSet(m, k, v) == (k :> v) @@ m

EmptyMap == <<>>

RECURSIVE dedupeLoopNoCache(_, _, _)
\* Mutant of dedupeLoop: the session cache is not consulted.
dedupeLoopNoCache(items, cache, acc) ==
    IF items = <<>> THEN acc
    ELSE LET item == Head(items)
             key == translateKey(item)
         IN  IF key \in DOMAIN acc.keyToIds
             THEN dedupeLoopNoCache(Tail(items), cache,
                      [acc EXCEPT !.keyToIds =
                          MapSet(@, key, Append(acc.keyToIds[key], item.paragraphId))])
             ELSE dedupeLoopNoCache(Tail(items), cache,
                      [acc EXCEPT !.keyToIds = MapSet(@, key, <<item.paragraphId>>),
                                  !.idToKey = MapSet(@, item.paragraphId, key),
                                  !.pending = Append(@, item)])

RECURSIVE dedupeLoop(_, _, _)
\* The first loop of translateAndMaybeApplySlide over the items
dedupeLoop(items, cache, acc) ==
    IF items = <<>> THEN acc
    ELSE LET item == Head(items)
             key == translateKey(item)
         IN  IF key \in DOMAIN cache
             THEN dedupeLoop(Tail(items), cache,
                      [acc EXCEPT !.allResults =
                          Append(@, [paragraphId |-> item.paragraphId,
                                     translatedRuns |-> cache[key]])])
             ELSE IF key \in DOMAIN acc.keyToIds
             THEN dedupeLoop(Tail(items), cache,
                      [acc EXCEPT !.keyToIds =
                          MapSet(@, key, Append(acc.keyToIds[key], item.paragraphId))])
             ELSE dedupeLoop(Tail(items), cache,
                      [acc EXCEPT !.keyToIds = MapSet(@, key, <<item.paragraphId>>),
                                  !.idToKey = MapSet(@, item.paragraphId, key),
                                  !.pending = Append(@, item)])

dedupe(items, cache) ==
    dedupeLoop(items, cache,
               [pending |-> <<>>, keyToIds |-> EmptyMap, idToKey |-> EmptyMap,
                allResults |-> <<>>])

RECURSIVE fanOutLoopKeepUnknown(_, _, _, _)
\* Mutant of fanOutLoop: a result under an id without key is kept as it is.
fanOutLoopKeepUnknown(translated, idToKey, keyToIds, acc) ==
    IF translated = <<>> THEN acc
    ELSE LET r == Head(translated)
         IN  IF r.paragraphId \notin DOMAIN idToKey
             THEN fanOutLoopKeepUnknown(Tail(translated), idToKey, keyToIds,
                      [acc EXCEPT !.allResults = Append(@, r)])
             ELSE LET key == idToKey[r.paragraphId]
                      ids == keyToIds[key]
                  IN  fanOutLoopKeepUnknown(Tail(translated), idToKey, keyToIds,
                          [cache |-> MapSet(acc.cache, key, r.translatedRuns),
                           allResults |-> acc.allResults \o
                               [k \in 1..Len(ids) |->
                                   [paragraphId |-> ids[k],
                                    translatedRuns |-> r.translatedRuns]]])

RECURSIVE fanOutLoop(_, _, _, _)
\* The loop over the results of translateChunks: cache.set and fan-out to
\* every id that shares the key.
fanOutLoop(translated, idToKey, keyToIds, acc) ==
    IF translated = <<>> THEN acc
    ELSE LET r == Head(translated)
         IN  IF r.paragraphId \notin DOMAIN idToKey
             THEN fanOutLoop(Tail(translated), idToKey, keyToIds, acc)
             ELSE LET key == idToKey[r.paragraphId]
                      ids == keyToIds[key]
                  IN  fanOutLoop(Tail(translated), idToKey, keyToIds,
                          [cache |-> MapSet(acc.cache, key, r.translatedRuns),
                           allResults |-> acc.allResults \o
                               [k \in 1..Len(ids) |->
                                   [paragraphId |-> ids[k],
                                    translatedRuns |-> r.translatedRuns]]])

\* Mutant of resultMap: only the last result is kept.
resultMapLastOnly(allResults) ==
    IF allResults = <<>> THEN EmptyMap
    ELSE MapSet(EmptyMap, allResults[Len(allResults)].paragraphId,
                allResults[Len(allResults)].translatedRuns)

RECURSIVE resultMap(_)
\* for (const r of allResults) map.set(r.paragraphId, r)
resultMap(allResults) ==
    IF allResults = <<>> THEN EmptyMap
    ELSE LET r == allResults[Len(allResults)]
         IN  MapSet(resultMap(SubSeq(allResults, 1, Len(allResults) - 1)),
                    r.paragraphId, r.translatedRuns)

----------------------------------------------------------------------------
\* Extraction and write-back of a whole slide (ppt.ts)
\*
\* A host slide holds text shapes and the cells of at most one table:
\*   shape: [id, name, hasFrame, text, fonts, fontRuns, paragraphFormats]
\*   cell:  [row, col, text, textLen, textRuns]
\* textLen is the length the host reports for cell.text; the text of a long
\* cell is not spelled out.  fontRuns and paragraphFormats are the spans
\* last queued on the shape's text range.

TableShapeId == <<"9">>

\* The state of the walk after one more visit
afterVisit(acc, v) ==
    [status |-> v.status,
     shapeTextTargets |-> acc.shapeTextTargets \o v.shapeTextTargets]

RECURSIVE visitShapes(_, _, _, _, _)
\* walkShapes over the text shapes of the slide, in document order
visitShapes(shapes, unread, clamps, slideIndex, acc) ==
    IF shapes = <<>> \/ acc.status = "rejected" THEN acc
    ELSE visitShapes(Tail(shapes), unread, clamps, slideIndex,
             afterVisit(acc, visitShape(Head(shapes).fonts, unread, clamps,
                                        slideIndex, Head(shapes))))

RECURSIVE visitCells(_, _)
\* The visitor of extractSlideTargets on the table: one target per cell
\* whose text is not blank.
visitCells(cells, slideIndex) ==
    IF cells = <<>> THEN <<>>
    ELSE LET cell == Head(cells)
             runSnapshots ==
                 IF cell.textRuns # <<>>
                 THEN [i \in 1..Len(cell.textRuns) |->
                          [text |-> cell.textRuns[i].text, font |-> cell.textRuns[i].font]]
                 ELSE << [text |-> cell.text, font |-> Null] >>
         IN  (IF cell.text = <<>> \/ trim(cell.text) = <<>> THEN <<>>
              ELSE << [kind |-> "tableCell", shapeId |-> TableShapeId,
                       shapeName |-> <<"T">>, groupPath |-> <<>>,
                       row |-> cell.row, col |-> cell.col,
                       paragraphId |-> cellId(slideIndex, TableShapeId, cell.row, cell.col),
                       originalChars |-> cell.textLen,
                       runs |-> runSnapshots] >>)
               \o visitCells(Tail(cells), slideIndex)

\* The value extractSlideTargets returns, with the status of the walk
slideTargets(slideIndex, v, tableCellTargets) ==
    [status |-> v.status,
     targets |-> [slideIndex |-> slideIndex,
                  shapeTextTargets |-> v.shapeTextTargets,
                  tableCellTargets |-> tableCellTargets]]

\* extractSlideTargets(slideIndex, settings): status and SlideTargets
extractSlideTargets(slideIndex, hostSlide, unread, clamps) ==
    slideTargets(slideIndex,
                 visitShapes(hostSlide.shapes, unread, clamps, slideIndex,
                             [status |-> "done", shapeTextTargets |-> <<>>]),
                 visitCells(hostSlide.cells, slideIndex))

MapHas(m, k) == k \in DOMAIN m

\* shapeIndex.get(shapeKey(id, groupPath)): the position of the shape on
\* the host slide, or 0
shapeIndexGet(hostShapes, id) ==
    LET hits == {k \in 1..Len(hostShapes) : hostShapes[k].id = id}
    IN  IF hits = {} THEN 0 ELSE CHOOSE k \in hits : \A j \in hits : k >= j

RECURSIVE applyShapeTargets(_, _, _, _)
\* The shape loop of applySlideTranslations
applyShapeTargets(hostShapes, sts, map, keepLineBreaks) ==
    IF sts = <<>> THEN hostShapes
    ELSE LET st == Head(sts)
             k == shapeIndexGet(hostShapes, st.shapeId)
         IN  IF k = 0 \/ ~hostShapes[k].hasFrame \/ hostShapes[k].text = <<>>
             THEN applyShapeTargets(hostShapes, Tail(sts), map, keepLineBreaks)
             ELSE LET updated == [i \in 1..Len(st.paragraphs) |->
                                    IF MapHas(map, st.paragraphs[i].id)
                                    THEN applyRunTranslations(st.paragraphs[i],
                                                              map[st.paragraphs[i].id])
                                    ELSE st.paragraphs[i]]
                      composed == composeText(updated, keepLineBreaks)
                  IN  applyShapeTargets(
                          [hostShapes EXCEPT ![k] =
                              [@ EXCEPT !.text = composed.fullText,
                                        !.paragraphFormats = composed.paragraphSpans,
                                        !.fontRuns = composed.runSpans]],
                          Tail(sts), map, keepLineBreaks)

\* table.getCellOrNullObject(row, col): the position of the cell, or 0
cellIndexGet(hostCells, row, col) ==
    LET hits == {k \in 1..Len(hostCells) : hostCells[k].row = row /\ hostCells[k].col = col}
    IN  IF hits = {} THEN 0 ELSE CHOOSE k \in hits : TRUE

RECURSIVE applyCellTargetsGuarded(_, _, _)
\* Mutant of applyCellTargets: non-translatable runs keep their text.
applyCellTargetsGuarded(hostCells, tcs, map) ==
    IF tcs = <<>> THEN hostCells
    ELSE LET tc == Head(tcs)
             k == cellIndexGet(hostCells, tc.row, tc.col)
         IN  IF k = 0 \/ ~MapHas(map, tc.paragraphId)
             THEN applyCellTargetsGuarded(hostCells, Tail(tcs), map)
             ELSE applyCellTargetsGuarded(
                      [hostCells EXCEPT ![k].textRuns =
                          [i \in 1..Len(tc.runs) |->
                              IF isNonTranslatable(tc.runs[i].text) THEN tc.runs[i]
                              ELSE [text |-> Coalesce(mapGet(map[tc.paragraphId], i - 1),
                                                      tc.runs[i].text),
                                    font |-> tc.runs[i].font]]],
                      Tail(tcs), map)

RECURSIVE applyCellTargets(_, _, _)
\* The table loop of applySlideTranslations
applyCellTargets(hostCells, tcs, map) ==
    IF tcs = <<>> THEN hostCells
    ELSE LET tc == Head(tcs)
             k == cellIndexGet(hostCells, tc.row, tc.col)
         IN  IF k = 0 \/ ~MapHas(map, tc.paragraphId)
             THEN applyCellTargets(hostCells, Tail(tcs), map)
             ELSE applyCellTargets(
                      LET newTextRuns ==
                              [i \in 1..Len(tc.runs) |->
                                  [text |-> Coalesce(mapGet(map[tc.paragraphId], i - 1),
                                                     tc.runs[i].text),
                                   font |-> tc.runs[i].font]]
                      IN  [hostCells EXCEPT
                              ![k].textRuns = newTextRuns,
                              ![k].text = Concat([i \in 1..Len(newTextRuns) |->
                                                     newTextRuns[i].text])],
                      Tail(tcs), map)

\* How PowerPoint.run of applySlideTranslations can end.  A shape target
\* whose shape is not in the index is looked up with slide.shapes.getItem,
\* which gives a proxy (never a falsy value), and the next context.sync
\* throws when the shape does not exist.  A cell that does not exist is a
\* null object; whether setting textRuns on it makes the final sync throw
\* is left to the host.
applyStatuses(hostSlide, targets, map) ==
    IF \E k \in 1..Len(targets.shapeTextTargets) :
           shapeIndexGet(hostSlide.shapes, targets.shapeTextTargets[k].shapeId) = 0
    THEN {"rejected"}
    ELSE IF \E k \in 1..Len(targets.tableCellTargets) :
                /\ MapHas(map, targets.tableCellTargets[k].paragraphId)
                /\ cellIndexGet(hostSlide.cells, targets.tableCellTargets[k].row,
                                targets.tableCellTargets[k].col) = 0
    THEN {"done", "rejected"}
    ELSE {"done"}

\* applySlideTranslations(slideIndex, targets, translationMap, settings)
applySlideTranslations(hostSlide, targets, map, keepLineBreaks) ==
    [shapes |-> applyShapeTargets(hostSlide.shapes, targets.shapeTextTargets,
                                  map, keepLineBreaks),
     cells |-> applyCellTargets(hostSlide.cells, targets.tableCellTargets, map)]

RECURSIVE previewLoop(_, _, _)
\* The preview loops of translateAndMaybeApplySlide over the paragraphs of
\* the shape targets, in order, up to three non-blank texts
previewLoop(paragraphs, map, parts) ==
    IF paragraphs = <<>> \/ Len(parts) >= 3 THEN parts
    ELSE LET p == Head(paragraphs)
         IN  IF ~MapHas(map, p.id) THEN previewLoop(Tail(paragraphs), map, parts)
             ELSE LET applied == applyRunTranslations(p, map[p.id])
                      text == Concat([j \in 1..Len(applied.runs) |-> applied.runs[j].text])
                  IN  previewLoop(Tail(paragraphs), map,
                          IF trim(text) # <<>> THEN Append(parts, text) ELSE parts)

previewOf(targets, map) ==
    JoinWith(previewLoop(Concat([k \in 1..Len(targets.shapeTextTargets) |->
                                    targets.shapeTextTargets[k].paragraphs]),
                         map, <<>>),
             <<"\n", "\n">>)

----------------------------------------------------------------------------
\* The pure steps called on enumerated inputs

\* Run texts of the enumerated paragraphs and cells: "", "   ", "42%", "(c)", "Hi"
EmptyText == <<>>
BlankText == <<" ", " ", " ">>
PercentText == <<"4", "2", "%">>
CopyrightText == <<"(", "c", ")">>
WordText == <<"H", "i">>

RunTextPool == {EmptyText, BlankText, PercentText, CopyrightText, WordText}

\* Runs as run detection yields them: adjacent runs differ in font.
runsOfTexts(texts) ==
    [i \in 1..Len(texts) |->
        [text |-> texts[i],
         font |-> IF i % 2 = 1 THEN defaultFontSnapshot ELSE BoldFont]]

\* A paragraph is either the empty paragraph (one empty run) or has
\* non-empty runs only; the run list of a table cell is what the host gives.
ParagraphRunTexts ==
    {<<EmptyText>>} \cup
    {t \in SeqsUpTo(RunTextPool \ {EmptyText}, MaxRuns) : t # <<>>}

CellRunTexts == {t \in SeqsUpTo(RunTextPool, MaxRuns) : t # <<>>}

mkParagraph(slideIndex, shapeId, p, texts) ==
    [id |-> paragraphId(slideIndex, shapeId, p),
     originalCharCount |-> Len(Concat(texts)),
     runs |-> runsOfTexts(texts),
     paragraphFormat |-> Null]

mkCell(slideIndex, shapeId, r, c, runs, textLen) ==
    [kind |-> "tableCell", shapeId |-> shapeId, shapeName |-> <<"T">>,
     groupPath |-> <<>>, row |-> r, col |-> c,
     paragraphId |-> cellId(slideIndex, shapeId, r, c),
     originalChars |-> textLen, runs |-> runs]

InitItems ==
    /\ phase = "items"
    /\ charFonts = <<>> /\ unreadable = {}
    /\ RunsIdle
    /\ ExtractIdle
    /\ \E t1 \in ParagraphRunTexts, t2 \in {<<WordText>>, <<PercentText, BlankText>>},
          t3 \in CellRunTexts :
         fnInput =
            [slideIndex |-> 0,
             shapeTextTargets |->
                << [kind |-> "shapeText", shapeId |-> <<"7">>, shapeName |-> <<"T">>,
                    groupPath |-> <<>>,
                    paragraphs |-> << mkParagraph(0, <<"7">>, 0, t1),
                                      mkParagraph(0, <<"7">>, 1, t2) >>] >>,
             tableCellTargets |->
                << mkCell(0, <<"9">>, 0, 0, runsOfTexts(t3), Len(Concat(t3))) >>]
    /\ fnOutput = <<>>
    /\ ScopeIdle

\* buildTranslateItems(targets)
BuildItems ==
    /\ phase = "items"
    /\ fnOutput = <<>>
    /\ fnOutput' = <<"items", buildTranslateItems(fnInput)>>
    /\ UNCHANGED <<phase, pane, hostVars, runVars, extractVars, fnInput, scopeVars>>

SpecItems == InitItems /\ [][BuildItems]_vars

\* applyRunTranslations on its own: a paragraph and the translatedRuns of
\* its result, with indexes inside and outside the run list
PaddedText == <<" ", "H", "i", " ">>

AppliedRunTexts ==
    ParagraphRunTexts \cup {<<PaddedText>>, <<PaddedText, PercentText>>,
                            <<PaddedText, BlankText>>}

TranslatedRunEntries ==
    [index : -1..MaxRuns, text : {<<"U">>, <<" ", "V", " ">>}]

InitApplyRuns ==
    /\ phase = "applyRuns"
    /\ charFonts = <<>> /\ unreadable = {}
    /\ RunsIdle
    /\ ExtractIdle
    /\ \E texts \in AppliedRunTexts, tr \in SeqsUpTo(TranslatedRunEntries, MaxRuns) :
         fnInput = [paragraph |-> mkParagraph(0, <<"7">>, 0, texts),
                    translatedRuns |-> tr]
    /\ fnOutput = <<>>
    /\ ScopeIdle

\* applyRunTranslations(paragraph, translatedRuns)
ApplyRuns ==
    /\ phase = "applyRuns"
    /\ fnOutput = <<>>
    /\ fnOutput' = <<"applied",
                     applyRunTranslations(fnInput.paragraph, fnInput.translatedRuns)>>
    /\ UNCHANGED <<phase, pane, hostVars, runVars, extractVars, fnInput, scopeVars>>

SpecApplyRuns == InitApplyRuns /\ [][ApplyRuns]_vars

\* composeText on its own
HelloText == <<"H", "e", "l", "l", "o">>
WorldText == <<"W", "o", "r", "l", "d">>
BangText == <<"!">>

\* the paragraphs "Hello", "World", "!" of one run each
HelloParagraphs ==
    << mkParagraph(0, <<"7">>, 0, <<HelloText>>),
       mkParagraph(0, <<"7">>, 1, <<WorldText>>),
       mkParagraph(0, <<"7">>, 2, <<BangText>>) >>

ComposedRunTexts ==
    {<<EmptyText>>, <<WordText>>, <<WordText, PercentText>>, <<BlankText, WordText>>}

InitCompose ==
    /\ phase = "compose"
    /\ charFonts = <<>> /\ unreadable = {}
    /\ RunsIdle
    /\ ExtractIdle
    /\ \E texts \in SeqsUpTo(ComposedRunTexts, MaxParas), keep \in BOOLEAN,
          hello \in BOOLEAN :
         fnInput =
            [paragraphs |->
                IF hello THEN HelloParagraphs
                ELSE [k \in 1..Len(texts) |-> mkParagraph(0, <<"7">>, k - 1, texts[k])],
             keepLineBreaks |-> keep]
    /\ fnOutput = <<>>
    /\ ScopeIdle

\* composeText(paragraphs, settings)
Compose ==
    /\ phase = "compose"
    /\ fnOutput = <<>>
    /\ fnOutput' = <<"composed", composeText(fnInput.paragraphs, fnInput.keepLineBreaks)>>
    /\ UNCHANGED <<phase, pane, hostVars, runVars, extractVars, fnInput, scopeVars>>

SpecCompose == InitCompose /\ [][Compose]_vars

\* originalChars of the enumerated items
ItemSizes == {0, 1, 2, 4, 7000, 12001}

InitChunk ==
    /\ phase = "chunk"
    /\ charFonts = <<>> /\ unreadable = {}
    /\ RunsIdle
    /\ ExtractIdle
    /\ \E sizes \in SeqsUpTo(ItemSizes, MaxItems), mc \in {3, DefaultMaxChars},
          mi \in {1, 2, DefaultMaxItems} :
         fnInput =
            [items |-> [i \in 1..Len(sizes) |->
                          [paragraphId |-> cellId(0, <<"9">>, i, 0),
                           originalChars |-> sizes[i],
                           runs |-> <<[index |-> 0, text |-> WordText]>>]],
             maxChars |-> mc, maxItems |-> mi]
    /\ fnOutput = <<>>
    /\ ScopeIdle

\* chunkByChars(items, maxChars, maxItems)
ChunkItems ==
    /\ phase = "chunk"
    /\ fnOutput = <<>>
    /\ fnOutput' = <<"chunks", chunkByChars(fnInput.items, fnInput.maxChars, fnInput.maxItems)>>
    /\ UNCHANGED <<phase, pane, hostVars, runVars, extractVars, fnInput, scopeVars>>

SpecChunk == InitChunk /\ [][ChunkItems]_vars

----------------------------------------------------------------------------
\* translateScope with translateAndMaybeApplySlide and translateChunks

\* Mutant of Concurrency: one worker.
OneWorkerOnly == 2 - 1

Concurrency == 3

\* Mutant of Min: the larger of the two.
MinTakesLarger(a, b) == IF a < b THEN b ELSE a

Min(a, b) == IF a < b THEN a ELSE b

\* What the provider may do with the items of one request: translate every
\* run, return no item at all, or fail (network, HTTP or schema error in
\* translateBatch).
Styles == {"all", "none", "throw"}

respond(style, items) ==
    IF style = "all"
    THEN [k \in 1..Len(items) |->
            [paragraphId |-> items[k].paragraphId,
             translatedRuns |->
                [j \in 1..Len(items[k].runs) |->
                    [index |-> items[k].runs[j].index,
                     text |-> <<"T">> \o items[k].runs[j].text]]]]
    ELSE <<>>

\* slides' paragraphs plus cells: the count of translateScope
targetCount(targets) ==
    LET RECURSIVE paras(_)
        paras(sts) == IF sts = <<>> THEN 0
                      ELSE Len(Head(sts).paragraphs) + paras(Tail(sts))
    IN  paras(targets.shapeTextTargets) + Len(targets.tableCellTargets)

\* Mutant of claimNext: the claim leaves the cursor where it is.
claimNextNoAdvance(chunks, cursor, isAborted) ==
    IF isAborted THEN [worker |-> -1, cursor |-> cursor, sent |-> <<>>]
    ELSE IF cursor >= Len(chunks)
    THEN [worker |-> -1, cursor |-> cursor, sent |-> <<>>]
    ELSE [worker |-> cursor, cursor |-> cursor, sent |-> <<cursor>>]

\* Mutant of claimNext: the worker does not look at the abort signal.
claimNextIgnoringAbort(chunks, cursor, isAborted) ==
    IF cursor >= Len(chunks)
    THEN [worker |-> -1, cursor |-> cursor + 1, sent |-> <<>>]
    ELSE [worker |-> cursor, cursor |-> cursor + 1, sent |-> <<cursor>>]

\* The worker loop of translateChunks from its abort check to its next
\* await: the worker's new state (-1: returned), the cursor, the request
\* sent if any.
claimNext(chunks, cursor, isAborted) ==
    IF isAborted THEN [worker |-> -1, cursor |-> cursor, sent |-> <<>>]
    ELSE IF cursor >= Len(chunks)
    THEN [worker |-> -1, cursor |-> cursor + 1, sent |-> <<>>]
    ELSE [worker |-> cursor, cursor |-> cursor + 1, sent |-> <<cursor>>]

RECURSIVE startWorkers(_, _, _, _)
\* Array.from({ length: n }, async () => ...): each worker runs up to its
\* first await before the next one starts.
startWorkers(n, chunks, isAborted, acc) ==
    IF Len(acc.workers) >= n THEN acc
    ELSE LET c == claimNext(chunks, acc.cursor, isAborted)
         IN  startWorkers(n, chunks, isAborted,
                 [workers |-> Append(acc.workers, c.worker),
                  cursor |-> c.cursor,
                  sent |-> acc.sent \o c.sent])

claimsOf(slideIndex, sent) ==
    [k \in 1..Len(sent) |-> [slide |-> slideIndex, chunk |-> sent[k]]]

requestsOf(slideIndex, chunks, sent) ==
    [k \in 1..Len(sent) |->
        [slide |-> slideIndex, chunk |-> sent[k], items |-> chunks[sent[k] + 1]]]

\* Host slides of the enumerated decks
textShape(id, name, text, fonts) ==
    [id |-> id, name |-> name, hasFrame |-> TRUE, text |-> text, fonts |-> fonts,
     fontRuns |-> <<>>, paragraphFormats |-> <<>>]

hostCell(r, c, texts, textLen) ==
    [row |-> r, col |-> c, text |-> Concat(texts), textLen |-> textLen,
     textRuns |-> runsOfTexts(texts)]

shortCell(r, c, texts) == hostCell(r, c, texts, Len(Concat(texts)))

\* A cell whose text has 7000 characters, with one run
longCell(r, c, tag) == hostCell(r, c, << <<"L", ToString(tag)>> >>, 7000)

EmptySlide == [shapes |-> <<>>, cells |-> <<>>]

\* A text shape named "Hi42" whose text "abcd" is half default, half bold,
\* and a table with a word, a word followed by "42%", and "42%" alone
MixedSlide ==
    [shapes |-> << textShape(<<"7">>, <<"H", "i", "4", "2">>, <<"a", "b", "c", "d">>,
                             <<defaultFontSnapshot, defaultFontSnapshot,
                               BoldFont, BoldFont>>) >>,
     cells |-> << shortCell(0, 0, <<WordText>>),
                  shortCell(0, 1, <<WordText, PercentText>>),
                  shortCell(1, 0, <<PercentText>>) >>]

\* Two cells with the same run texts
TwinSlide ==
    [shapes |-> <<>>,
     cells |-> << shortCell(0, 0, <<WordText>>), shortCell(0, 1, <<WordText>>) >>]

\* Four long cells, each a chunk of its own
LongSlide ==
    [shapes |-> <<>>,
     cells |-> << longCell(0, 0, 1), longCell(0, 1, 2),
                  longCell(1, 0, 3), longCell(1, 1, 4) >>]

\* A long cell that also is on LongSlide, and a word
EchoSlide ==
    [shapes |-> <<>>,
     cells |-> << longCell(0, 0, 1), shortCell(0, 1, <<WordText>>) >>]

SlidePool == {EmptySlide, MixedSlide, TwinSlide, LongSlide, EchoSlide}

\* History kept for the properties: the deck before the invocation, the
\* requests sent to the provider, each slide's items and result mapping, and
\* whether every response so far held a result for every requested item.
\* Also: the slides read by extractSlideTargets in order with the targets
\* they gave, the chunk indexes claimed by the workers in order, the
\* responses the provider gave, the number of chunks of each slide, and
\* where the invocation stood when Cancel was clicked, and the requests
\* that failed.
histAtStart(d) ==
    [original |-> d, requests |-> <<>>, maps |-> EmptyMap, items |-> EmptyMap,
     answeredAll |-> TRUE,
     reads |-> <<>>, targets |-> EmptyMap, claims |-> <<>>, responses |-> {},
     chunkCount |-> EmptyMap, cancel |-> Null, failed |-> {}]

\* The texts of the status line, without their accents: "Traduction...",
\* "Annule", "Pret", "Erreur"
StatusBusy == "Traduction"
StatusCancelled == "Annule"
StatusReady == "Pret"
StatusError == "Erreur"

InitScope ==
    /\ phase = "scope"
    /\ charFonts = <<>> /\ unreadable = {}
    /\ RunsIdle
    /\ ExtractIdle
    /\ FnIdle
    /\ deck \in {d \in SeqsUpTo(SlidePool, MaxSlides) : d # <<>>}
    /\ settings \in [mode : {"apply", "preview"}, keepLineBreaks : {TRUE},
                      apiKey : BOOLEAN]
    /\ aborted = FALSE
    /\ pc = "loop"
    /\ slidePos = 0
    /\ translationCache = EmptyMap
    /\ total = 0
    /\ preview = <<>>
    /\ ctx = NoCtx
    /\ hist = histAtStart(deck)
    /\ status = StatusBusy
    /\ pane = PaneOff

\* Mutant of abortSeen: the loop of translateScope does not look at the signal.
abortNeverSeen == FALSE

\* if (abortSignal?.aborted) break, at the head of the loop of translateScope
abortSeen == aborted

\* translateScope, loop head: abort check and extractSlideTargets
ExtractSlide ==
    /\ phase = "scope" /\ pc = "loop"
    /\ slidePos < Len(deck)
    /\ ~abortSeen
    /\ \E ex \in {extractSlideTargets(slidePos, deck[slidePos + 1], unreadable, hostClamps)} :
           /\ hist' = [hist EXCEPT !.reads = Append(@, slidePos),
                                   !.targets = MapSet(@, slidePos, ex.targets)]
           /\ IF ex.status = "rejected"
              THEN pc' = "failed" /\ status' = StatusError /\ UNCHANGED <<slidePos, ctx>>
              ELSE IF targetCount(ex.targets) = 0
              THEN slidePos' = slidePos + 1 /\ UNCHANGED <<pc, ctx, status>>
              ELSE /\ pc' = "extracted"
                   /\ ctx' = [targets |-> ex.targets]
                   /\ UNCHANGED <<slidePos, status>>
    /\ UNCHANGED <<phase, pane, hostVars, runVars, extractVars, fnVars,
                   deck, settings, aborted, translationCache, total, preview>>

\* translateAndMaybeApplySlide up to the first await of translateChunks:
\* items, deduplication, chunks, and the start of the workers
BeginTranslate ==
    /\ phase = "scope" /\ pc = "extracted"
    /\ LET items == buildTranslateItems(ctx.targets)
           dd == dedupe(items, translationCache)
           chunks == chunkByChars(dd.pending, DefaultMaxChars, DefaultMaxItems)
           n == Min(Concurrency, Len(chunks))
           st == startWorkers(n, chunks, aborted,
                              [workers |-> <<>>, cursor |-> 0, sent |-> <<>>])
           slideIndex == ctx.targets.slideIndex
       IN  IF items = <<>>
           THEN /\ pc' = "loop" /\ slidePos' = slidePos + 1 /\ ctx' = NoCtx
                /\ UNCHANGED <<hist, status>>
           ELSE /\ UNCHANGED slidePos
                /\ IF st.sent # <<>> /\ ~settings.apiKey
                   THEN \* translateBatch throws in every worker
                        /\ pc' = "failed"
                        /\ status' = StatusError
                        /\ ctx' = [targets |-> ctx.targets, dd |-> dd, chunks |-> chunks,
                                   cursor |-> st.cursor,
                                   workers |-> [w \in 1..n |-> -1], results |-> <<>>]
                        /\ hist' = [hist EXCEPT
                                      !.items = MapSet(@, slideIndex, items),
                                      !.chunkCount = MapSet(@, slideIndex, Len(chunks)),
                                      !.claims = @ \o claimsOf(slideIndex, st.sent),
                                      !.failed = @ \cup {[slide |-> slideIndex,
                                                           chunk |-> st.sent[k]] :
                                                             k \in 1..Len(st.sent)}]
                   ELSE /\ pc' = IF \A w \in 1..n : st.workers[w] = -1
                                 THEN "translated" ELSE "chunks"
                        /\ ctx' = [targets |-> ctx.targets, dd |-> dd, chunks |-> chunks,
                                   cursor |-> st.cursor,
                                   workers |-> st.workers, results |-> <<>>]
                        /\ hist' = [hist EXCEPT
                                      !.items = MapSet(@, slideIndex, items),
                                      !.chunkCount = MapSet(@, slideIndex, Len(chunks)),
                                      !.claims = @ \o claimsOf(slideIndex, st.sent),
                                      !.requests = @ \o requestsOf(slideIndex, chunks, st.sent)]
                        /\ UNCHANGED status
    /\ UNCHANGED <<phase, pane, hostVars, runVars, extractVars, fnVars,
                   deck, settings, aborted, translationCache, total, preview>>

\* Mutant of onThrow: the throw of translateBatch is swallowed by the worker.
onThrowSwallowed(pcNow, workers1) ==
    IF pcNow = "chunks" /\ \A v \in 1..Len(workers1) : workers1[v] = -1
    THEN "translated" ELSE pcNow

\* translateBatch throws inside a worker: the worker's promise rejects, so
\* Promise.all and with it translateChunks, translateAndMaybeApplySlide and
\* translateScope reject.
onThrow(pcNow, workers1) == "failed"

\* A worker's request settles: translateBatch returns or throws, the worker
\* pushes the results and runs to its next await or to its end.
ReceiveStyle(w, style) ==
    /\ phase = "scope" /\ pc \in {"chunks", "failed"}
    /\ ctx # NoCtx /\ "workers" \in DOMAIN ctx
    /\ w \in 1..Len(ctx.workers)
    /\ ctx.workers[w] >= 0
    /\   IF style = "throw"
         THEN /\ ctx' = [ctx EXCEPT !.workers[w] = -1]
              /\ pc' = onThrow(pc, [ctx.workers EXCEPT ![w] = -1])
              /\ status' = StatusError
              /\ hist' = [hist EXCEPT !.failed = @ \cup {[slide |-> ctx.targets.slideIndex,
                                                           chunk |-> ctx.workers[w]]}]
         ELSE LET res == respond(style, ctx.chunks[ctx.workers[w] + 1])
                  c == claimNext(ctx.chunks, ctx.cursor, aborted)
                  workers1 == [ctx.workers EXCEPT ![w] = c.worker]
              IN  /\ ctx' = [ctx EXCEPT !.results = @ \o res,
                                        !.cursor = c.cursor,
                                        !.workers = workers1]
                  /\ hist' = [hist EXCEPT
                                !.claims = @ \o claimsOf(ctx.targets.slideIndex, c.sent),
                                !.requests = @ \o requestsOf(ctx.targets.slideIndex,
                                                             ctx.chunks, c.sent),
                                !.responses = @ \cup {[slide |-> ctx.targets.slideIndex,
                                                       chunk |-> ctx.workers[w],
                                                       res |-> res]},
                                !.answeredAll = @ /\ style # "none"]
                  /\ UNCHANGED status
                  /\ pc' = IF pc = "chunks" /\ \A v \in 1..Len(workers1) : workers1[v] = -1
                           THEN "translated" ELSE pc
    /\ UNCHANGED <<phase, pane, hostVars, runVars, extractVars, fnVars,
                   deck, settings, aborted, slidePos, translationCache, total, preview>>

Receive(w) == \E style \in Styles : ReceiveStyle(w, style)

\* Mutant of writeBack: the slide is written in preview mode too.
writeBackAlways(mode, hostSlide, targets, map, keepLineBreaks) ==
    applySlideTranslations(hostSlide, targets, map, keepLineBreaks)

\* Mutant of writeBack: a slide is not written once cancellation is signalled.
writeBackUnlessAborted(mode, hostSlide, targets, map, keepLineBreaks) ==
    IF mode = "preview" \/ aborted THEN hostSlide
    ELSE applySlideTranslations(hostSlide, targets, map, keepLineBreaks)

\* The end of translateAndMaybeApplySlide: preview mode returns before the
\* call of applySlideTranslations.
writeBack(mode, hostSlide, targets, map, keepLineBreaks) ==
    IF mode = "preview" THEN hostSlide
    ELSE applySlideTranslations(hostSlide, targets, map, keepLineBreaks)

\* translateAndMaybeApplySlide after translateChunks: cache and fan-out,
\* the result mapping, then the preview or the write-back; and the end of
\* the loop body of translateScope.
FinishSlide ==
    /\ phase = "scope" /\ pc = "translated"
    /\ LET fo == fanOutLoop(ctx.results, ctx.dd.idToKey, ctx.dd.keyToIds,
                            [cache |-> translationCache, allResults |-> ctx.dd.allResults])
           map == resultMap(fo.allResults)
           slideIndex == ctx.targets.slideIndex
           resPreview == IF settings.mode = "preview" THEN previewOf(ctx.targets, map)
                         ELSE <<>>
       IN  /\ translationCache' = fo.cache
           /\ deck' = [deck EXCEPT ![slideIndex + 1] =
                          writeBack(settings.mode, @, ctx.targets, map,
                                    settings.keepLineBreaks)]
           /\ total' = total + Cardinality(DOMAIN map)
           /\ preview' = IF preview = <<>> /\ resPreview # <<>> THEN resPreview
                         ELSE preview
           /\ hist' = [hist EXCEPT !.maps = MapSet(@, slideIndex, map)]
    /\ pc' = "loop"
    /\ slidePos' = slidePos + 1
    /\ ctx' = NoCtx
    /\ UNCHANGED <<phase, pane, hostVars, runVars, extractVars, fnVars, settings, aborted,
                   status>>

\* translateScope leaves its loop and returns
EndScope ==
    /\ phase = "scope" /\ pc = "loop"
    /\ slidePos >= Len(deck) \/ abortSeen
    /\ pc' = "done"
    /\ status' = IF aborted THEN StatusCancelled ELSE StatusReady
    /\ UNCHANGED <<phase, pane, hostVars, runVars, extractVars, fnVars,
                   deck, settings, aborted, slidePos, translationCache, total, preview, ctx, hist>>

\* The Cancel button while the invocation is in progress
Cancel ==
    /\ phase = "scope" /\ pc \in {"loop", "extracted", "chunks", "translated"}
    /\ ~aborted
    /\ aborted' = TRUE
    /\ hist' = [hist EXCEPT !.cancel = Some([pc |-> pc, slide |-> slidePos,
                                             sent |-> Len(hist.requests)])]
    /\ UNCHANGED <<phase, pane, hostVars, runVars, extractVars, fnVars,
                   deck, settings, pc, slidePos, translationCache, total, preview, ctx,
                   status>>

NextScope ==
    \/ ExtractSlide
    \/ BeginTranslate
    \/ \E w \in 1..Concurrency : Receive(w)
    \/ FinishSlide
    \/ EndScope
    \/ Cancel

SpecScope == InitScope /\ [][NextScope]_vars

----------------------------------------------------------------------------
\* The task pane (taskpane.ts): the Translate and Cancel buttons, the
\* scope and mode controls, the auto-saved inputs, around translateScope.
\*
\* pane.settings is the object the module variable `settings` refers to;
\* pane.shared tells whether that object is the one handed to the
\* invocation in progress (the variable settings).  readUI builds a new
\* object, so persistFromUI ends the sharing.

MaxStarts == 2
MaxEdits == 2

PaneOn == phase = "scope" /\ pane # PaneOff

PaneDecks == {<<TwinSlide, MixedSlide>>}

\* the provider of the task pane's runs answers in full or fails
PaneStyles == {"all", "throw"}

InitPane ==
    /\ phase = "scope"
    /\ charFonts = <<>> /\ unreadable = {}
    /\ RunsIdle
    /\ ExtractIdle
    /\ FnIdle
    /\ deck \in PaneDecks
    /\ settings \in [mode : {"apply", "preview"}, keepLineBreaks : {TRUE},
                      apiKey : {TRUE}, scope : {"all"}]
    /\ pane = [abortController |-> "null", cancelDisabled |-> TRUE,
               settings |-> settings, shared |-> TRUE,
               inFlight |-> 0, started |-> 0, ignored |-> 0, edits |-> 0]
    /\ aborted = FALSE
    /\ pc = "idle"
    /\ slidePos = 0
    /\ translationCache = EmptyMap
    /\ total = 0
    /\ preview = <<>>
    /\ ctx = NoCtx
    /\ hist = histAtStart(deck)
    /\ status = StatusReady

\* Mutant of runInProgress: the click handler does not look at abortController.
runInProgressNever(abortController) == FALSE

\* if (abortController) return
runInProgress(abortController) == abortController # "null"

\* translateBtn click: nothing when a run is in progress; else a new
\* AbortController, Cancel enabled, persistFromUI, and the call of
\* translateScope with the object persistFromUI has just built
TranslateClick ==
    /\ PaneOn
    /\ IF runInProgress(pane.abortController)
       THEN /\ pane.ignored < MaxEdits
            /\ pane' = [pane EXCEPT !.ignored = @ + 1]
            /\ UNCHANGED <<deck, settings, aborted, pc, slidePos, translationCache, total,
                           preview, ctx, hist, status>>
       ELSE /\ pane.started < MaxStarts
            /\ pane' = [pane EXCEPT !.abortController = "live", !.cancelDisabled = FALSE,
                                    !.shared = TRUE, !.inFlight = @ + 1, !.started = @ + 1]
            /\ settings' = pane.settings
            /\ aborted' = FALSE
            /\ pc' = "loop"
            /\ slidePos' = 0
            /\ translationCache' = EmptyMap
            /\ total' = 0
            /\ preview' = <<>>
            /\ ctx' = NoCtx
            /\ hist' = histAtStart(deck)
            /\ status' = StatusBusy
            /\ UNCHANGED deck
    /\ UNCHANGED <<phase, hostVars, runVars, extractVars, fnVars>>

\* the finally block of the translateBtn handler, after translateScope has
\* resolved or rejected
RunEnds ==
    /\ PaneOn
    /\ pc \in {"done", "failed"}
    /\ pane.abortController = "live"
    /\ pane' = [pane EXCEPT !.abortController = "null", !.cancelDisabled = TRUE,
                            !.inFlight = @ - 1]
    /\ pc' = "idle"
    /\ UNCHANGED <<phase, hostVars, runVars, extractVars, fnVars,
                   deck, settings, aborted, slidePos, translationCache, total, preview,
                   ctx, hist, status>>

\* modeApply / modePreview click: settings.mode = m on the object the module
\* variable refers to, then persistFromUI
ModeClick(m) ==
    /\ PaneOn
    /\ pane.edits < MaxEdits
    /\ pane.settings.mode # m
    /\ pane' = [pane EXCEPT !.settings.mode = m, !.shared = FALSE, !.edits = @ + 1]
    /\ settings' = IF pane.shared THEN [settings EXCEPT !.mode = m] ELSE settings
    /\ UNCHANGED <<phase, hostVars, runVars, extractVars, fnVars,
                   deck, aborted, pc, slidePos, translationCache, total, preview,
                   ctx, hist, status>>

\* scopeCurrent / scopeAll click: settings.scope = sc, then persistFromUI
ScopeClick(sc) ==
    /\ PaneOn
    /\ pane.edits < MaxEdits
    /\ pane.settings.scope # sc
    /\ pane' = [pane EXCEPT !.settings.scope = sc, !.shared = FALSE, !.edits = @ + 1]
    /\ settings' = IF pane.shared THEN [settings EXCEPT !.scope = sc] ELSE settings
    /\ UNCHANGED <<phase, hostVars, runVars, extractVars, fnVars,
                   deck, aborted, pc, slidePos, translationCache, total, preview,
                   ctx, hist, status>>

\* change of an auto-saved input (here: keepLineBreaks): persistFromUI
SettingChange ==
    /\ PaneOn
    /\ pane.edits < MaxEdits
    /\ pane' = [pane EXCEPT !.settings.keepLineBreaks = ~@, !.shared = FALSE,
                            !.edits = @ + 1]
    /\ UNCHANGED <<phase, hostVars, runVars, extractVars, fnVars,
                   deck, settings, aborted, pc, slidePos, translationCache, total, preview,
                   ctx, hist, status>>

NextPane ==
    \/ TranslateClick
    \/ RunEnds
    \/ \E m \in {"apply", "preview"} : ModeClick(m)
    \/ \E sc \in {"current", "all"} : ScopeClick(sc)
    \/ SettingChange
    \/ ExtractSlide
    \/ BeginTranslate
    \/ \E w \in 1..Concurrency : \E style \in PaneStyles : ReceiveStyle(w, style)
    \/ FinishSlide
    \/ EndScope
    \/ Cancel

SpecPane == InitPane /\ [][NextPane]_vars

RunInFlight == PaneOn /\ pane.abortController = "live"

\* a click on Translate that started an invocation of translateScope
StartsRun == PaneOn /\ pane'.started > pane.started

OneRunAtMost ==
    PaneOn =>
        /\ pane.inFlight <= 1
        /\ (pane.abortController = "null") <=> (pane.inFlight = 0)
        /\ (pane.abortController = "null") <=> pane.cancelDisabled
        /\ (pane.abortController = "null") <=> (pc = "idle")

ClickStartsOnlyWhenIdle ==
    /\ RunInFlight => ~StartsRun
    /\ StartsRun => /\ pane'.abortController = "live"
                    /\ ~pane'.cancelDisabled
                    /\ ~aborted'
                    /\ pc' = "loop"
    /\ (RunInFlight /\ pc' = "idle") => /\ pane'.abortController = "null"
                                         /\ pane'.cancelDisabled

\* C37: at most one invocation of translateScope is in flight from the task
\* pane: a click on Translate while one is running starts nothing; when the
\* invocation ends the abort controller is null and Cancel is disabled; a
\* later click starts a new invocation with a fresh, non-aborted signal.
C37_OneRunInFlight == []OneRunAtMost /\ [][ClickStartsOnlyWhenIdle]_vars

\* a second run in progress, after a first one that was cancelled, and a
\* click on Translate that was ignored
C37_Witness ==
    /\ RunInFlight
    /\ pane.started = 2
    /\ pane.ignored >= 1
    /\ ~aborted
    /\ status = StatusBusy
    /\ slidePos >= 1

ModeKeptDuringRun ==
    (RunInFlight /\ pane'.abortController = "live") => settings'.mode = settings.mode

\* C38: the configuration of an invocation in flight is the one in effect
\* when it started: a click on a mode control during the run does not change
\* the mode the invocation uses for its remaining slides.
C38_ModeFixedAtStart == [][ModeKeptDuringRun]_vars

----------------------------------------------------------------------------
\* Extraction of a shape's text followed by composeText, with no
\* translation in between (formatting.ts, ppt.ts)

RoundTripChars == {"a", "b", "\n"}

RECURSIVE paragraphStarts(_, _, _)
\* pStart of each turn of the loop of extractShapeTextParagraphs, from
\* paragraph p (0-based) on: the cursor, advanced by the paragraph's
\* length and by one for the line break unless the paragraph is the last
paragraphStarts(paras, p, cursor) ==
    IF p >= Len(paras) THEN <<>>
    ELSE <<cursor>> \o paragraphStarts(paras, p + 1,
               cursor + Len(paras[p + 1]) + (IF p < Len(paras) - 1 THEN 1 ELSE 0))

InitRoundTrip ==
    /\ phase = "roundtrip"
    /\ unreadable \in {{}, {"color"}}
    /\ RunsIdle
    /\ ExtractIdle
    /\ \E t \in SeqsUpTo(RoundTripChars, MaxLen), keep \in BOOLEAN :
         /\ t # <<>>
         /\ charFonts \in [1..Len(t) -> {defaultFontSnapshot, BoldFont}]
         /\ fnInput = [text |-> t, keepLineBreaks |-> keep]
    /\ fnOutput = <<>>
    /\ ScopeIdle

\* extractShapeTextParagraphs on the text, then composeText on its result
RoundTrip ==
    /\ phase = "roundtrip"
    /\ fnOutput = <<>>
    /\ \E paragraphs \in {extractShapeTextParagraphs(charFonts, unreadable, fnInput.text,
                                                      0, <<"7">>, Some(fnInput.text))} :
         fnOutput' = <<"roundtrip",
                       [paragraphs |-> paragraphs,
                        composed |-> composeText(paragraphs, fnInput.keepLineBreaks)]>>
    /\ UNCHANGED <<phase, pane, hostVars, runVars, extractVars, fnInput, scopeVars>>

SpecRoundTrip == InitRoundTrip /\ [][RoundTrip]_vars

RoundTripDone == phase = "roundtrip" /\ fnOutput # <<>>

\* C40: extraction followed by recomposition without translation is the
\* identity on text: for every non-empty text T, composing the paragraphs
\* extractShapeTextParagraphs returns for T with keepLineBreaks true gives
\* fullText = T, and each paragraph span starts at the offset at which the
\* paragraph was extracted.
C40_ExtractComposeIdentity ==
    (RoundTripDone /\ fnInput.keepLineBreaks) =>
        LET composed == fnOutput[2].composed
            starts == paragraphStarts(splitOn(fnInput.text, "\n"), 0, 0)
        IN  /\ composed.fullText = fnInput.text
            /\ Len(composed.paragraphSpans) = Len(starts)
            /\ \A i \in 1..Len(starts) :
                  /\ composed.paragraphSpans[i].start = starts[i]
                  /\ composed.paragraphSpans[i].length
                       = fnOutput[2].paragraphs[i].originalCharCount

\* a text of two paragraphs, the first empty, the second of two runs
C40_Witness ==
    /\ RoundTripDone /\ fnInput.keepLineBreaks
    /\ Len(fnOutput[2].paragraphs) = 2
    /\ fnOutput[2].paragraphs[1].originalCharCount = 0
    /\ Len(fnOutput[2].paragraphs[2].runs) = 2
    /\ fnOutput[2].composed.paragraphSpans[2].start = 1

\* The invocation when the request of the first chunk of the last slide
\* never settles, every other request returns, and Cancel is not clicked.  A
\* request that the provider answers does settle: weak fairness on each
\* worker's Completes.
Completes(w) ==
    /\ phase = "scope" /\ pc = "chunks"
    /\ w \in 1..Len(ctx.workers)
    /\ ctx.workers[w] > 0 \/ ctx.targets.slideIndex < Len(deck) - 1
    /\ \E style \in {"all", "none"} : ReceiveStyle(w, style)

NextStall ==
    \/ ExtractSlide
    \/ BeginTranslate
    \/ \E w \in 1..Concurrency : Completes(w)
    \/ FinishSlide
    \/ EndScope

SpecStall ==
    /\ InitScope
    /\ [][NextStall]_vars
    /\ \A w \in 1..Concurrency : WF_vars(Completes(w))

----------------------------------------------------------------------------
\* Run detection on one paragraph: inputs and calls

Alphabet == {"a", "b"}

\* "Bold RedNormal": characters 0-3 bold, 5-7 red, the rest default
ScenarioText ==
    <<"B", "o", "l", "d", " ", "R", "e", "d", "N", "o", "r", "m", "a", "l">>

ScenarioFonts ==
    [i \in 1..14 |-> IF i \in 1..4 THEN BoldFont
                     ELSE IF i \in 6..8 THEN RedFont
                     ELSE defaultFontSnapshot]

\* Length of the text that precedes the paragraph when it is not the first
PrefixLen == 2

UnreadableSets == {{}, {"color"}, {"name", "underline"}}

NoDetection == [by |-> "none", runs |-> <<>>, fetches |-> 0]

InitRuns ==
    /\ phase = "runs"
    /\ paragraphStart \in {0, PrefixLen}
    /\ unreadable \in UnreadableSets
    /\ \E t \in SeqsUpTo(Alphabet, MaxLen) \cup {ScenarioText} :
         /\ paragraphText = t
         /\ \E fs \in (IF t = ScenarioText THEN {ScenarioFonts}
                        ELSE [1..Len(t) -> Palette]) :
              charFonts = [i \in 1..paragraphStart |-> ItalicFont] \o fs
    /\ detected = NoDetection
    /\ ExtractIdle
    /\ FnIdle
    /\ ScopeIdle

Detect(by, res) ==
    detected' = [by |-> by, runs |-> res.runs, fetches |-> res.fetches]

\* extractRunsByFont on the paragraph
RunByFont ==
    /\ phase = "runs"
    /\ Detect("font", extractRunsByFont(charFonts, unreadable, paragraphStart, paragraphText))
    /\ UNCHANGED <<phase, pane, hostVars, paragraphText, paragraphStart, extractVars, fnVars, scopeVars>>

\* extractRunsByCharScan on the paragraph (called for n >= 1 only)
RunCharScan ==
    /\ phase = "runs"
    /\ paragraphText # <<>>
    /\ Detect("scan", extractRunsByCharScan(charFonts, unreadable, paragraphStart, paragraphText))
    /\ UNCHANGED <<phase, pane, hostVars, paragraphText, paragraphStart, extractVars, fnVars, scopeVars>>

\* extractRunsByBinarySplit on the paragraph (called for n >= 1 only)
RunBinarySplit ==
    /\ phase = "runs"
    /\ paragraphText # <<>>
    /\ Detect("split", extractRunsByBinarySplit(charFonts, unreadable, paragraphStart, paragraphText))
    /\ UNCHANGED <<phase, pane, hostVars, paragraphText, paragraphStart, extractVars, fnVars, scopeVars>>

NextRuns == RunByFont \/ RunCharScan \/ RunBinarySplit

SpecRuns == InitRuns /\ [][NextRuns]_vars

----------------------------------------------------------------------------
\* Properties of run detection

\* the host reports an attribute as null exactly when the characters differ
FaithfulHost == unreadable = {}

\* a detection has acted on the paragraph of the state
Detected == phase = "runs" /\ detected.by # "none"

StrategiesAgree ==
    extractRunsByCharScan(charFonts, unreadable, paragraphStart, paragraphText).runs
      = extractRunsByBinarySplit(charFonts, unreadable, paragraphStart, paragraphText).runs

RunTexts(runs) == [i \in 1..Len(runs) |-> runs[i].text]

ByStrategy == detected.by \in {"scan", "split"}

\* The fonts of the paragraph's own characters
ParagraphFonts == [i \in 1..Len(paragraphText) |-> charFonts[paragraphStart + i]]

\* C2: the runs of either strategy concatenate, in order, to exactly the
\* paragraph text, whatever the fonts and whatever the host leaves unreadable.
C2_Lossless == ByStrategy => Concat(RunTexts(detected.runs)) = paragraphText

C2_Witness ==
    /\ detected.by = "split"
    /\ paragraphStart > 0
    /\ unreadable # {}
    /\ Len(detected.runs) >= 2
    /\ Len(paragraphText) = MaxLen

\* C3: in the run list of either strategy every run is non-empty and no two
\* adjacent runs have equal FontSnapshots.
C3_MaximallyMerged ==
    ByStrategy =>
        /\ \A i \in 1..Len(detected.runs) : detected.runs[i].text # <<>>
        /\ \A i \in 1..(Len(detected.runs) - 1) :
              detected.runs[i].font # detected.runs[i + 1].font

C3_Witness ==
    /\ detected.by = "split"
    /\ unreadable # {}
    /\ Len(paragraphText) = 3
    /\ Len(detected.runs) = 2

Uniform ==
    /\ paragraphText # <<>>
    /\ \A i \in 1..Len(paragraphText) : ParagraphFonts[i] = ParagraphFonts[1]

\* C4: a non-empty paragraph whose characters all carry the same font yields
\* exactly one run, by scan and by bisection, also when the host reports an
\* attribute as null on every probed range.
C4_UniformOneRun == (Uniform /\ detected.by # "none") => Len(detected.runs) = 1

C4_Witness ==
    /\ Uniform
    /\ detected.by = "split"
    /\ unreadable # {}
    /\ Len(paragraphText) = 3
    /\ ParagraphFonts[1] = BoldFont
    /\ detected.fetches > 1

IsScenario == paragraphText = ScenarioText /\ unreadable = {}

FourRuns ==
    << [text |-> <<"B", "o", "l", "d">>, font |-> BoldFont],
       [text |-> <<" ">>, font |-> defaultFontSnapshot],
       [text |-> <<"R", "e", "d">>, font |-> RedFont],
       [text |-> <<"N", "o", "r", "m", "a", "l">>, font |-> defaultFontSnapshot] >>

ThreeRuns ==
    << [text |-> <<"B", "o", "l", "d", " ">>, font |-> BoldFont],
       [text |-> <<"R", "e", "d">>, font |-> RedFont],
       [text |-> <<"N", "o", "r", "m", "a", "l">>, font |-> defaultFontSnapshot] >>

\* C6 (as stated): on "Bold RedNormal" the scan strategy returns the three
\* runs "Bold " (bold), "Red" (red), "Normal" (default).
C6_ThreeRuns == (IsScenario /\ detected.by = "scan") => detected.runs = ThreeRuns

\* C6 (amended): character 4, the space, has the default font, so the scan
\* strategy returns four runs: "Bold" (bold), " " (default), "Red" (red),
\* "Normal" (default).
C6_FourRuns == (IsScenario /\ detected.by = "scan") => detected.runs = FourRuns

C6_Witness == IsScenario /\ detected.by = "scan" /\ paragraphStart = PrefixLen

----------------------------------------------------------------------------
\* Properties of extraction

Recorded == phase = "extract" /\ extraction.shapeTextTargets # <<>>

RecordedParagraphs == extraction.shapeTextTargets[1].paragraphs

ParagraphTexts(ps) == [i \in 1..Len(ps) |-> Concat(RunTexts(ps[i].runs))]

\* C1: for every text shape that extractSlideTargets records, the text split
\* into paragraphs is the text of the shape's text range: the paragraphs'
\* run texts joined with a line feed reproduce it, and each originalCharCount
\* is the length of the corresponding line.
C1_ParagraphsOfRangeText ==
    Recorded =>
        /\ JoinWith(ParagraphTexts(RecordedParagraphs), <<"\n">>) = shape.text
        /\ LET lines == splitOn(shape.text, "\n")
           IN  /\ Len(lines) = Len(RecordedParagraphs)
               /\ \A i \in 1..Len(lines) :
                     RecordedParagraphs[i].originalCharCount = Len(lines[i])

DefaultRun == [text |-> <<>>, font |-> defaultFontSnapshot]

\* C5: an empty paragraph produces exactly one run, with empty text and the
\* default FontSnapshot, without any host fetch; and every Paragraph that
\* extractShapeTextParagraphs produces has at least one run.
C5_EmptyParagraphOneRun ==
    /\ (phase = "runs" /\ detected.by = "font") =>
          /\ Len(detected.runs) >= 1
          /\ paragraphText = <<>> =>
                (detected.runs = <<DefaultRun>> /\ detected.fetches = 0)
    /\ Recorded =>
          \A i \in 1..Len(RecordedParagraphs) :
              /\ Len(RecordedParagraphs[i].runs) >= 1
              /\ RecordedParagraphs[i].originalCharCount = 0 =>
                    RecordedParagraphs[i].runs = <<DefaultRun>>

C5_Witness ==
    /\ phase = "runs"
    /\ detected.by = "font"
    /\ paragraphText = <<>>
    /\ paragraphStart = PrefixLen
    /\ detected.runs = <<DefaultRun>>

SpecRunsExtract == (InitRuns \/ InitExtract) /\ [][NextRuns \/ NextExtract]_vars

----------------------------------------------------------------------------
\* Properties of buildTranslateItems and chunkByChars

\* A text with a character that is neither whitespace nor a digit nor one
\* of the protected symbols
HasWordChar(text) == \E i \in 1..Len(text) : text[i] \notin ProtectedClass

\* The paragraphs and cells of the targets, as (id, originalChars, runs)
UnitsOf(targets) ==
    {[id |-> p.id, chars |-> p.originalCharCount, runs |-> p.runs] :
        p \in UNION {{t.paragraphs[i] : i \in 1..Len(t.paragraphs)} :
                       t \in {targets.shapeTextTargets[k] :
                                 k \in 1..Len(targets.shapeTextTargets)}}}
    \cup
    {[id |-> t.paragraphId, chars |-> t.originalChars, runs |-> t.runs] :
        t \in {targets.tableCellTargets[k] : k \in 1..Len(targets.tableCellTargets)}}

ItemsBuilt == phase = "items" /\ fnOutput # <<>>

\* C8: buildTranslateItems emits an item for a paragraph or cell if and only
\* if at least one of its runs is translatable, and an emitted item lists
\* every run of it with index equal to the run's position.
C8_ItemsIffTranslatable ==
    ItemsBuilt =>
        LET items == fnOutput[2]
            ids == {items[i].paragraphId : i \in 1..Len(items)}
        IN  /\ \A u \in UnitsOf(fnInput) :
                  (u.id \in ids) <=> (\E j \in 1..Len(u.runs) : HasWordChar(u.runs[j].text))
            /\ \A i \in 1..Len(items) :
                  \E u \in UnitsOf(fnInput) :
                      /\ u.id = items[i].paragraphId
                      /\ Len(items[i].runs) = Len(u.runs)
                      /\ \A j \in 1..Len(u.runs) :
                            items[i].runs[j] = [index |-> j - 1, text |-> u.runs[j].text]
            /\ \A i, k \in 1..Len(items) :
                  items[i].paragraphId = items[k].paragraphId => i = k

C8_Witness ==
    /\ ItemsBuilt
    /\ Len(fnOutput[2]) = 2
    /\ \E i \in 1..2 : /\ Len(fnOutput[2][i].runs) = 2
                        /\ fnOutput[2][i].runs[1].text = PercentText
                        /\ fnOutput[2][i].runs[2].text = CopyrightText

ChunksBuilt == phase = "chunk" /\ fnOutput # <<>>

SumChars(chunk) ==
    LET RECURSIVE sum(_)
        sum(c) == IF c = <<>> THEN 0 ELSE Head(c).originalChars + sum(Tail(c))
    IN  sum(chunk)

\* C10 (as stated): every chunk has at most maxItems items and a total
\* originalChars of at most maxChars, and no item is split across chunks.
C10_ChunksBounded ==
    ChunksBuilt =>
        LET chunks == fnOutput[2]
        IN  /\ \A i \in 1..Len(chunks) :
                  /\ Len(chunks[i]) <= fnInput.maxItems
                  /\ SumChars(chunks[i]) <= fnInput.maxChars
            /\ Concat(chunks) = fnInput.items

\* C10 (amended): every chunk has at most maxItems items, and a total
\* originalChars of at most maxChars unless it consists of one item whose
\* own originalChars exceeds maxChars; the chunks in order are the item list.
C10_ChunksBoundedUnlessOversize ==
    ChunksBuilt =>
        LET chunks == fnOutput[2]
        IN  /\ \A i \in 1..Len(chunks) :
                  /\ Len(chunks[i]) <= fnInput.maxItems
                  /\ \/ SumChars(chunks[i]) <= fnInput.maxChars
                     \/ /\ Len(chunks[i]) = 1
                        /\ chunks[i][1].originalChars > fnInput.maxChars
            /\ Concat(chunks) = fnInput.items

C10_Witness ==
    /\ ChunksBuilt
    /\ Len(fnInput.items) = MaxItems
    /\ fnInput.maxItems = 2
    /\ \E i \in 1..Len(fnOutput[2]) : SumChars(fnOutput[2][i]) > fnInput.maxChars
    /\ \E i \in 1..Len(fnOutput[2]) : Len(fnOutput[2][i]) = 2

----------------------------------------------------------------------------
\* Properties of translateScope

ScopeDone == phase = "scope" /\ pc = "done"

\* the run texts of every item of every request sent so far
RequestedRunTexts ==
    {hist.requests[k].items[i].runs[j].text :
        <<k, i, j>> \in {t \in (1..Len(hist.requests)) \X (1..DefaultMaxItems) \X (1..MaxRuns) :
                            /\ t[2] <= Len(hist.requests[t[1]].items)
                            /\ t[3] <= Len(hist.requests[t[1]].items[t[2]].runs)}}

\* every run of a table cell that was non-translatable before the invocation
\* has the same text in the deck now
CellRunsKept ==
    \A s \in 1..Len(deck) : \A c \in 1..Len(deck[s].cells) :
        LET before == hist.original[s].cells[c].textRuns
            after == deck[s].cells[c].textRuns
        IN  \A j \in 1..Len(before) :
                isNonTranslatable(before[j].text) =>
                    j <= Len(after) /\ after[j].text = before[j].text

\* C7: a run whose text is non-translatable is never part of a request to
\* the provider, and after a full run of the scope it has the text it had
\* before, in table cells as in shapes.
C7_NonTranslatableUntouched ==
    phase = "scope" =>
        /\ \A t \in RequestedRunTexts : ~isNonTranslatable(t)
        /\ ScopeDone /\ ~aborted => CellRunsKept

\* all <<slide index, item>> pairs built during the invocation
BuiltItems ==
    {<<s, hist.items[s][i]>> :
        <<s, i>> \in {t \in (DOMAIN hist.items) \X (1..DefaultMaxItems) :
                        t[2] <= Len(hist.items[t[1]])}}

\* the <<request, position>> pairs at which an item with this key was sent
RequestsFor(key) ==
    {t \in (1..Len(hist.requests)) \X (1..DefaultMaxItems) :
        /\ t[2] <= Len(hist.requests[t[1]].items)
        /\ translateKey(hist.requests[t[1]].items[t[2]]) = key}

\* the translatedRuns the slide's result mapping holds for the item
MappedRuns(b) ==
    IF b[1] \in DOMAIN hist.maps /\ MapHas(hist.maps[b[1]], b[2].paragraphId)
    THEN Some(hist.maps[b[1]][b[2].paragraphId])
    ELSE Null

\* C9: when the invocation ran to its end, was not cancelled, and the
\* provider answered every requested item, every sequence of run texts was
\* sent to the provider in exactly one request item, and all paragraphs and
\* cells with that sequence, on the same slide or on different slides, got
\* the same translatedRuns.
C9_OneRequestPerSequence ==
    (ScopeDone /\ ~aborted /\ hist.answeredAll) =>
        \A b \in BuiltItems :
            /\ Cardinality(RequestsFor(translateKey(b[2]))) = 1
            /\ MappedRuns(b) # Null
            /\ \A b2 \in BuiltItems :
                   translateKey(b2[2]) = translateKey(b[2]) =>
                       MappedRuns(b2) = MappedRuns(b)

C9_Witness ==
    /\ ScopeDone /\ ~aborted /\ hist.answeredAll
    /\ hist.requests # <<>>
    /\ \E b, b2 \in BuiltItems :
           /\ b[1] = b2[1] /\ b[2].paragraphId # b2[2].paragraphId
           /\ translateKey(b[2]) = translateKey(b2[2])
    /\ \E b, b2 \in BuiltItems :
           /\ b[1] # b2[1]
           /\ translateKey(b[2]) = translateKey(b2[2])

----------------------------------------------------------------------------
\* Properties of translateChunks inside translateScope

\* translateChunks has been entered for the current slide
InChunks == phase = "scope" /\ "workers" \in DOMAIN ctx

\* the workers that await a response of the provider
InFlight == {w \in 1..Len(ctx.workers) : ctx.workers[w] >= 0}

\* C11: at every moment of translateChunks the number of requests in flight
\* is at most the concurrency (3) and at most the number of chunks.
C11_BoundedInFlight ==
    InChunks =>
        /\ Cardinality(InFlight) <= Concurrency
        /\ Cardinality(InFlight) <= Len(ctx.chunks)

C11_Witness ==
    /\ InChunks
    /\ Len(ctx.chunks) > Concurrency
    /\ Cardinality(InFlight) = Concurrency
    /\ ctx.results # <<>>
    /\ ctx.cursor = Len(ctx.chunks)

\* the positions of hist.claims, of hist.requests, that name this chunk
ClaimsOfChunk(s, k) ==
    {i \in 1..Len(hist.claims) : hist.claims[i] = [slide |-> s, chunk |-> k]}

RequestsOfChunk(s, k) ==
    {i \in 1..Len(hist.requests) :
        hist.requests[i].slide = s /\ hist.requests[i].chunk = k}

\* no chunk index of a slide is claimed twice, or sent twice
ClaimsDistinct ==
    /\ \A i, j \in 1..Len(hist.claims) : i # j => hist.claims[i] # hist.claims[j]
    /\ \A i, j \in 1..Len(hist.requests) :
           i # j => <<hist.requests[i].slide, hist.requests[i].chunk>>
                        # <<hist.requests[j].slide, hist.requests[j].chunk>>

\* translateChunks returns without cancellation: every chunk was claimed
\* and sent once
AllClaimedOnce ==
    (pc = "translated" /\ ~aborted) =>
        \A k \in 0..(Len(ctx.chunks) - 1) :
            /\ Cardinality(ClaimsOfChunk(ctx.targets.slideIndex, k)) = 1
            /\ Cardinality(RequestsOfChunk(ctx.targets.slideIndex, k)) = 1

CursorGrows ==
    (InChunks /\ "workers" \in DOMAIN ctx') => ctx'.cursor >= ctx.cursor

\* C12: the cursor of translateChunks only increases, no chunk index is
\* claimed twice, and when translateChunks returns without cancellation and
\* without a failed request every chunk index was claimed, and its chunk
\* sent, exactly once.
C12_UniqueClaims ==
    /\ [](phase = "scope" => ClaimsDistinct /\ AllClaimedOnce)
    /\ [][CursorGrows]_vars

C12_Witness ==
    /\ phase = "scope" /\ pc = "translated" /\ ~aborted
    /\ Len(ctx.chunks) > Concurrency
    /\ ctx.cursor > Len(ctx.chunks)

\* the requests sent for a slide
RequestsOfSlide(s) == {i \in 1..Len(hist.requests) : hist.requests[i].slide = s}

NoDispatchAfterCancel ==
    (phase = "scope" /\ aborted) =>
        /\ hist'.claims = hist.claims
        /\ hist'.requests = hist.requests

\* translateChunks returns when no request is in flight, with the results of
\* every response the provider gave for the slide
ResponsesReturned ==
    (phase = "scope" /\ pc = "translated") =>
        /\ InFlight = {}
        /\ \A r \in hist.responses :
               r.slide = ctx.targets.slideIndex =>
                   \A k \in 1..Len(r.res) :
                       \E i \in 1..Len(ctx.results) : ctx.results[i] = r.res[k]

\* every result the provider gave for a slide is in the slide's mapping
ResponsesMapped ==
    phase = "scope" =>
        \A s \in DOMAIN hist.maps : \A r \in hist.responses :
            r.slide = s =>
                \A k \in 1..Len(r.res) :
                    /\ MapHas(hist.maps[s], r.res[k].paragraphId)
                    /\ hist.maps[s][r.res[k].paragraphId] = r.res[k].translatedRuns

\* C13: once the cancellation flag is set no chunk index is claimed and no
\* request is sent any more; translateChunks returns only when no request is
\* in flight, its results hold every result the provider gave, and so does
\* the result mapping of the slide.
C13_CancelStopsDispatchOnly ==
    /\ [][NoDispatchAfterCancel]_vars
    /\ [](ResponsesReturned /\ ResponsesMapped)

\* Cancel was clicked while the requests of a slide were in flight
CancelledInChunks == hist.cancel # Null /\ hist.cancel[1].pc = "chunks"

C13_Witness ==
    /\ ScopeDone /\ aborted /\ CancelledInChunks
    /\ LET s == hist.cancel[1].slide
       IN  /\ s \in DOMAIN hist.maps
           /\ Cardinality(RequestsOfSlide(s)) < hist.chunkCount[s]
           /\ \E r \in hist.responses : r.slide = s /\ r.res # <<>>

\* The invocation ended after Cancel was clicked while the requests of a
\* slide with three chunks were in flight
CancelledInThree ==
    /\ ScopeDone /\ CancelledInChunks
    /\ hist.chunkCount[hist.cancel[1].slide] = 3

\* every result the provider gave for the chunk is in the slide's mapping
ChunkMapped(s, k) ==
    \A r \in hist.responses :
        (r.slide = s /\ r.chunk = k) =>
            \A i \in 1..Len(r.res) :
                /\ MapHas(hist.maps[s], r.res[i].paragraphId)
                /\ hist.maps[s][r.res[i].paragraphId] = r.res[i].translatedRuns

\* C14 (as stated): when a slide yields three chunks and cancellation is
\* signalled after the first was dispatched, the results of the first chunk
\* are in the final mapping, the second and third chunk are never
\* dispatched, and the status reported is "cancelled".
C14_OnlyFirstChunkDispatched ==
    CancelledInThree =>
        LET s == hist.cancel[1].slide
        IN  /\ ChunkMapped(s, 0)
            /\ RequestsOfChunk(s, 1) = {}
            /\ RequestsOfChunk(s, 2) = {}
            /\ status = StatusCancelled

\* C14 (amended): when a slide yields three chunks, all three are dispatched
\* before a cancellation can be signalled; when it is signalled while they
\* are in flight, no further request is sent, the results of all three
\* chunks are in the final mapping, and the status reported is "cancelled".
C14_AllThreeDispatched ==
    CancelledInThree =>
        LET s == hist.cancel[1].slide
        IN  /\ \A k \in 0..2 :
                   /\ Cardinality(RequestsOfChunk(s, k)) = 1
                   /\ \A i \in RequestsOfChunk(s, k) : i <= hist.cancel[1].sent
                   /\ ChunkMapped(s, k)
            /\ Len(hist.requests) = hist.cancel[1].sent
            /\ status = StatusCancelled

C14_Witness ==
    /\ CancelledInThree
    /\ \A k \in 0..2 :
           \E r \in hist.responses :
               r.slide = hist.cancel[1].slide /\ r.chunk = k /\ r.res # <<>>

----------------------------------------------------------------------------
\* Properties of translateScope under failures

\* C15: a provider call that fails for one chunk does not abort
\* translateScope: with an API key set, the invocation never rejects and the
\* task pane never shows the error status; the other chunks and the
\* remaining slides are still processed.
C15_ChunkFailureContained ==
    (phase = "scope" /\ settings.apiKey) =>
        /\ pc # "failed"
        /\ status # StatusError

\* C16: with a missing API key the invocation fails before any extraction:
\* no slide is read and no request is sent.
C16_NoKeyNoExtraction ==
    (phase = "scope" /\ ~settings.apiKey) =>
        /\ hist.reads = <<>>
        /\ hist.requests = <<>>
        /\ pc # "done"

----------------------------------------------------------------------------
\* Properties of the slide loop of translateScope

\* slides are read in the order of the index list
ReadsInOrder == \A i \in 1..Len(hist.reads) : hist.reads[i] = i - 1

\* the translate and apply steps of a slide that was read are over
SlideFinished(s) == s \in DOMAIN hist.maps \/ s \notin DOMAIN hist.items

\* a slide is read only at the loop head, with the flag unset and every
\* slide read before finished
ReadsSequential ==
    (phase = "scope" /\ hist'.reads # hist.reads) =>
        /\ ~aborted
        /\ pc = "loop" /\ ctx = NoCtx
        /\ \A i \in 1..Len(hist.reads) : SlideFinished(hist.reads[i])

\* after the loop head has seen the flag nothing is read, sent or written
NothingAfterCancelSeen ==
    (phase = "scope" /\ aborted /\ pc \in {"loop", "done"}) =>
        /\ deck' = deck
        /\ hist'.reads = hist.reads
        /\ hist'.requests = hist.requests

\* only the slide being processed is written, when its translation is over
AppliedSlidesKept ==
    phase = "scope" =>
        /\ \A k \in 1..Len(deck) : k # slidePos + 1 => deck'[k] = deck[k]
        /\ deck' # deck => pc = "translated"

\* C17: slides are processed one after another in index order; a slide is
\* extracted only after the translate and apply steps of the slides before
\* it, and only when the cancellation flag is not set; once the loop has
\* seen the flag no slide is extracted, translated or written, and slides
\* already applied keep their text.
C17_SlidesSequential ==
    /\ [](phase = "scope" => ReadsInOrder)
    /\ [][ReadsSequential /\ NothingAfterCancelSeen /\ AppliedSlidesKept]_vars

C17_Witness ==
    /\ ScopeDone /\ aborted /\ settings.mode = "apply"
    /\ Len(deck) = MaxSlides
    /\ hist.reads = <<0>>
    /\ deck[1] # hist.original[1]
    /\ buildTranslateItems(extractSlideTargets(1, deck[2], unreadable, hostClamps).targets) # <<>>

----------------------------------------------------------------------------
\* Properties of preview mode

\* C18: in preview mode the invocation writes nothing to the deck: every
\* slide is at all times as it was before the invocation.
C18_PreviewWritesNothing ==
    (phase = "scope" /\ settings.mode = "preview") => deck = hist.original

C18_Witness ==
    /\ ScopeDone /\ settings.mode = "preview" /\ ~aborted
    /\ preview # <<>>
    /\ \E s \in DOMAIN hist.maps :
           applySlideTranslations(deck[s + 1], hist.targets[s], hist.maps[s],
                                  settings.keepLineBreaks) # deck[s + 1]

RECURSIVE translatedTexts(_, _)
\* the translated texts, not blank, of the paragraphs that have a result
translatedTexts(paragraphs, map) ==
    IF paragraphs = <<>> THEN <<>>
    ELSE LET p == Head(paragraphs)
             text == IF MapHas(map, p.id)
                     THEN Concat([j \in 1..Len(p.runs) |->
                                     applyRunTranslations(p, map[p.id]).runs[j].text])
                     ELSE <<>>
         IN  (IF trim(text) # <<>> THEN <<text>> ELSE <<>>)
                 \o translatedTexts(Tail(paragraphs), map)

RECURSIVE ScopeTranslatedTexts(_)
\* the same over the slides s, s + 1, ... of the scope, in extraction order
ScopeTranslatedTexts(s) ==
    IF s >= Len(deck) THEN <<>>
    ELSE (IF s \in DOMAIN hist.maps
          THEN translatedTexts(
                   Concat([k \in 1..Len(hist.targets[s].shapeTextTargets) |->
                              hist.targets[s].shapeTextTargets[k].paragraphs]),
                   hist.maps[s])
          ELSE <<>>)
         \o ScopeTranslatedTexts(s + 1)

FirstThree(texts) == SubSeq(texts, 1, IF Len(texts) < 3 THEN Len(texts) ELSE 3)

\* C19: in preview mode the preview returned for the scope is the first
\* three translated paragraph texts of the scope that are not blank, in
\* extraction order, joined by "\n\n"; it has fewer parts only when the scope
\* has fewer such paragraphs.
C19_PreviewFirstThreeOfScope ==
    (ScopeDone /\ settings.mode = "preview" /\ ~aborted) =>
        preview = JoinWith(FirstThree(ScopeTranslatedTexts(0)), <<"\n", "\n">>)

----------------------------------------------------------------------------
\* Properties of applyRunTranslations

RunsApplied == phase = "applyRuns" /\ fnOutput # <<>>

\* the positions of translatedRuns that carry this index
SuppliedFor(idx) ==
    {k \in 1..Len(fnInput.translatedRuns) : fnInput.translatedRuns[k].index = idx}

LastOf(S) == CHOOSE k \in S : \A m \in S : m <= k

\* C20: applyRunTranslations keeps the run list's length, order and fonts;
\* run i gets the translated text supplied for index i (the last one, put
\* between the run's own leading and trailing whitespace), except that a run
\* whose text is non-translatable or whose index is not supplied is
\* unchanged; entries whose index is not a position of the run list have no
\* effect, and nothing else of the paragraph changes.
C20_RunsReplacedByIndex ==
    RunsApplied =>
        LET before == fnInput.paragraph
            after == fnOutput[2]
        IN  /\ Len(after.runs) = Len(before.runs)
            /\ [after EXCEPT !.runs = before.runs] = before
            /\ \A i \in 1..Len(before.runs) :
                   IF isNonTranslatable(before.runs[i].text) \/ SuppliedFor(i - 1) = {}
                   THEN after.runs[i] = before.runs[i]
                   ELSE /\ after.runs[i].font = before.runs[i].font
                        /\ after.runs[i].text =
                               preserveWhitespace(
                                   before.runs[i].text,
                                   fnInput.translatedRuns[LastOf(SuppliedFor(i - 1))].text)

C20_Witness ==
    /\ RunsApplied
    /\ \E i \in 1..Len(fnInput.paragraph.runs) :
           /\ SuppliedFor(i - 1) # {}
           /\ fnOutput[2].runs[i].text # fnInput.paragraph.runs[i].text
    /\ \E i \in 1..Len(fnInput.paragraph.runs) :
           /\ SuppliedFor(i - 1) # {}
           /\ fnInput.paragraph.runs[i].text = PercentText
           /\ fnOutput[2].runs[i].text = PercentText

\* the length of the longest prefix, suffix, of s made of whitespace
LeadCount(s) ==
    CHOOSE k \in 0..Len(s) :
        /\ \A i \in 1..k : s[i] \in WhitespaceChars
        /\ k = Len(s) \/ s[k + 1] \notin WhitespaceChars

TrailCount(s) ==
    CHOOSE k \in 0..Len(s) :
        /\ \A i \in (Len(s) - k + 1)..Len(s) : s[i] \in WhitespaceChars
        /\ k = Len(s) \/ s[Len(s) - k] \notin WhitespaceChars

\* s without its leading and trailing whitespace
Core(s) ==
    IF LeadCount(s) = Len(s) THEN <<>>
    ELSE SubSeq(s, LeadCount(s) + 1, Len(s) - TrailCount(s))

WhitespaceOnly(s) == s # <<>> /\ \A i \in 1..Len(s) : s[i] \in WhitespaceChars

\* the run at position i was given a new text
Replaced(i) ==
    /\ SuppliedFor(i - 1) # {}
    /\ ~isNonTranslatable(fnInput.paragraph.runs[i].text)

\* C21: the text of every run replaced by applyRunTranslations is the
\* original run's maximal leading whitespace, then the translated text
\* without its own leading and trailing whitespace, then the original run's
\* maximal trailing whitespace; a whitespace-only run is returned unchanged.
C21_WhitespacePreserved ==
    RunsApplied =>
        \A i \in 1..Len(fnInput.paragraph.runs) :
            LET orig == fnInput.paragraph.runs[i].text
            IN  /\ Replaced(i) =>
                       fnOutput[2].runs[i].text =
                           SubSeq(orig, 1, LeadCount(orig))
                           \o Core(fnInput.translatedRuns[LastOf(SuppliedFor(i - 1))].text)
                           \o SubSeq(orig, Len(orig) - TrailCount(orig) + 1, Len(orig))
                /\ WhitespaceOnly(orig) => fnOutput[2].runs[i] = fnInput.paragraph.runs[i]

C21_Witness ==
    /\ RunsApplied
    /\ Len(fnInput.paragraph.runs) = 2
    /\ Replaced(1) /\ fnInput.paragraph.runs[1].text = PaddedText
    /\ fnInput.translatedRuns[LastOf(SuppliedFor(0))].text = <<" ", "V", " ">>
    /\ fnOutput[2].runs[1].text = <<" ", "V", " ">>
    /\ SuppliedFor(1) # {} /\ fnInput.paragraph.runs[2].text = BlankText
    /\ fnOutput[2].runs[2].text = BlankText

----------------------------------------------------------------------------
\* Properties of composeText

Composed == phase = "compose" /\ fnOutput # <<>>

\* the text of paragraph k of the input
ParaText(k) ==
    Concat([j \in 1..Len(fnInput.paragraphs[k].runs) |->
               fnInput.paragraphs[k].runs[j].text])

Joiner == IF fnInput.keepLineBreaks THEN <<"\n">> ELSE <<" ">>

\* C22: composeText joins n paragraphs with n - 1 joiners, a space when
\* keepLineBreaks is false and a line feed when it is true, and none after
\* the last paragraph; "Hello", "World", "!" gives "Hello World !" and
\* "Hello\nWorld\n!".
C22_JoinersBetweenParagraphs ==
    Composed =>
        LET n == Len(fnInput.paragraphs)
            full == fnOutput[2].fullText
        IN  /\ full = JoinWith([k \in 1..n |-> ParaText(k)], Joiner)
            /\ n > 0 => Len(full) = Len(Concat([k \in 1..n |-> ParaText(k)])) + (n - 1)
            /\ fnInput.paragraphs = HelloParagraphs =>
                   full = IF fnInput.keepLineBreaks
                          THEN HelloText \o <<"\n">> \o WorldText \o <<"\n">> \o BangText
                          ELSE HelloText \o <<" ">> \o WorldText \o <<" ">> \o BangText

C22_Witness ==
    /\ Composed
    /\ fnInput.paragraphs = HelloParagraphs
    /\ ~fnInput.keepLineBreaks
    /\ fnOutput[2].fullText =
           <<"H", "e", "l", "l", "o", " ", "W", "o", "r", "l", "d", " ", "!">>

\* all runs of the input paragraphs, in order
AllRuns == Concat([k \in 1..Len(fnInput.paragraphs) |-> fnInput.paragraphs[k].runs])

RECURSIVE RunsBefore(_)
\* the number of runs of the paragraphs before paragraph k
RunsBefore(k) ==
    IF k <= 1 THEN 0 ELSE Len(fnInput.paragraphs[k - 1].runs) + RunsBefore(k - 1)

RECURSIVE SumLengths(_)
SumLengths(runs) == IF runs = <<>> THEN 0 ELSE Len(Head(runs).text) + SumLengths(Tail(runs))

\* C23: the offset tables of composeText match the composed text: each run
\* span covers exactly its run's text in fullText and carries its font, run
\* spans are in increasing order without overlap, each paragraph span goes
\* from the start of its first run to the end of its last run and covers the
\* paragraph's text without a joiner, and the length of fullText is the sum
\* of the run lengths plus the number of joiners.
C23_OffsetsMatchText ==
    Composed =>
        LET out == fnOutput[2]
            n == Len(fnInput.paragraphs)
        IN  /\ Len(out.runSpans) = Len(AllRuns)
            /\ \A k \in 1..Len(AllRuns) :
                   /\ out.runSpans[k].length = Len(AllRuns[k].text)
                   /\ out.runSpans[k].start + out.runSpans[k].length <= Len(out.fullText)
                   /\ Slice(out.fullText, out.runSpans[k].start,
                            out.runSpans[k].start + out.runSpans[k].length) = AllRuns[k].text
                   /\ out.runSpans[k].font = AllRuns[k].font
                   /\ k > 1 => out.runSpans[k].start >=
                                   out.runSpans[k - 1].start + out.runSpans[k - 1].length
            /\ Len(out.paragraphSpans) = n
            /\ \A k \in 1..n :
                   LET first == out.runSpans[RunsBefore(k) + 1]
                       last == out.runSpans[RunsBefore(k + 1)]
                   IN  /\ out.paragraphSpans[k].start = first.start
                       /\ out.paragraphSpans[k].start + out.paragraphSpans[k].length
                              = last.start + last.length
                       /\ Slice(out.fullText, out.paragraphSpans[k].start,
                                out.paragraphSpans[k].start + out.paragraphSpans[k].length)
                              = ParaText(k)
                       /\ out.paragraphSpans[k].format = fnInput.paragraphs[k].paragraphFormat
            /\ Len(out.fullText) = SumLengths(AllRuns) + (IF n = 0 THEN 0 ELSE n - 1)

C23_Witness ==
    /\ Composed
    /\ Len(fnInput.paragraphs) = MaxParas
    /\ fnInput.keepLineBreaks
    /\ Len(fnInput.paragraphs[1].runs) = 2
    /\ Len(fnInput.paragraphs[2].runs) = 2
    /\ fnOutput[2].runSpans[3].start = Len(ParaText(1)) + 1

----------------------------------------------------------------------------
\* applySlideTranslations on its own: the slide as it was extracted, the
\* slide as it is at write-back (a shape or a cell may have been removed in
\* between), and a result mapping
ApplyCellTexts == {<<WordText, PercentText>>, <<PaddedText, BlankText>>, <<BlankText>>}

extractedSlide(texts) ==
    [shapes |-> MixedSlide.shapes,
     cells |-> << shortCell(0, 0, <<WordText>>), shortCell(0, 1, texts) >>]

\* the slide at write-back: as extracted, or without its text shape, or
\* without one of its cells
slidesAtApply(slide) ==
    {slide,
     [slide EXCEPT !.shapes = <<>>],
     [slide EXCEPT !.cells = <<slide.cells[1]>>],
     [slide EXCEPT !.cells = <<slide.cells[2]>>]}

\* a mapping with or without an entry for each id
mapOf(shapeRuns, cellARuns, cellBRuns) ==
    LET m1 == IF shapeRuns = Null THEN EmptyMap
              ELSE MapSet(EmptyMap, paragraphId(0, <<"7">>, 0), shapeRuns[1])
        m2 == IF cellARuns = Null THEN m1
              ELSE MapSet(m1, cellId(0, TableShapeId, 0, 0), cellARuns[1])
    IN  IF cellBRuns = Null THEN m2
        ELSE MapSet(m2, cellId(0, TableShapeId, 0, 1), cellBRuns[1])

InitApply ==
    /\ phase = "apply"
    /\ charFonts = <<>> /\ unreadable = {}
    /\ RunsIdle
    /\ ExtractIdle
    /\ \E texts \in ApplyCellTexts :
       \E host \in slidesAtApply(extractedSlide(texts)) :
       \E sr \in {Null, Some(<<[index |-> 0, text |-> <<"U">>]>>)} :
       \E ar \in {Null, Some(<<[index |-> 0, text |-> <<"U">>]>>)} :
       \E br \in {Null} \cup {Some(tr) : tr \in SeqsUpTo(TranslatedRunEntries, MaxRuns)} :
         fnInput =
            [targets |-> extractSlideTargets(0, extractedSlide(texts), {}, TRUE).targets,
             host |-> host,
             map |-> mapOf(sr, ar, br),
             keepLineBreaks |-> TRUE]
    /\ fnOutput = <<>>
    /\ ScopeIdle

\* applySlideTranslations(slideIndex, targets, translationMap, settings).
\* When PowerPoint.run rejects, the writes queued before the failing sync
\* may or may not have reached the slide.
ApplySlide ==
    /\ phase = "apply"
    /\ fnOutput = <<>>
    /\ \E st \in applyStatuses(fnInput.host, fnInput.targets, fnInput.map) :
       \E written \in (IF st = "done" THEN {TRUE} ELSE BOOLEAN) :
         fnOutput' = <<"applied",
                       [status |-> st,
                        slide |-> IF written
                                  THEN applySlideTranslations(fnInput.host, fnInput.targets,
                                                              fnInput.map,
                                                              fnInput.keepLineBreaks)
                                  ELSE fnInput.host]>>
    /\ UNCHANGED <<phase, pane, hostVars, runVars, extractVars, fnInput, scopeVars>>

SpecApply == InitApply /\ [][ApplySlide]_vars

----------------------------------------------------------------------------
\* Properties of applySlideTranslations

SlideApplied == phase = "apply" /\ fnOutput # <<>>

\* the positions of the cell's translatedRuns that carry this index
CellSuppliedFor(tc, idx) ==
    {k \in 1..Len(fnInput.map[tc.paragraphId]) :
        fnInput.map[tc.paragraphId][k].index = idx}

\* C24: on write-back of a table cell that has a translation result, the
\* run list set on the cell has the length and order of the extracted run
\* list, run i has the text supplied for index i if there is one and its
\* original text otherwise, and every run keeps its font; a cell without a
\* result is not written.
C24_CellRunsByIndex ==
    (SlideApplied /\ fnOutput[2].status = "done") =>
        \A n \in 1..Len(fnInput.targets.tableCellTargets) :
            LET tc == fnInput.targets.tableCellTargets[n]
                k == cellIndexGet(fnInput.host.cells, tc.row, tc.col)
                out == fnOutput[2].slide.cells
            IN  k # 0 =>
                    IF MapHas(fnInput.map, tc.paragraphId)
                    THEN /\ Len(out[k].textRuns) = Len(tc.runs)
                         /\ \A i \in 1..Len(tc.runs) :
                                /\ out[k].textRuns[i].font = tc.runs[i].font
                                /\ out[k].textRuns[i].text =
                                       IF CellSuppliedFor(tc, i - 1) = {}
                                       THEN tc.runs[i].text
                                       ELSE fnInput.map[tc.paragraphId]
                                                [LastOf(CellSuppliedFor(tc, i - 1))].text
                    ELSE out[k] = fnInput.host.cells[k]

C24_Witness ==
    /\ SlideApplied /\ fnOutput[2].status = "done"
    /\ fnInput.host.cells = extractedSlide(<<WordText, PercentText>>).cells
    /\ ~MapHas(fnInput.map, cellId(0, TableShapeId, 0, 0))
    /\ MapHas(fnInput.map, cellId(0, TableShapeId, 0, 1))
    /\ fnOutput[2].slide.cells[2].textRuns[1].text = WordText
    /\ fnOutput[2].slide.cells[2].textRuns[2].text = <<"U">>

\* the targets whose shape or cell is no longer on the slide at write-back
Unresolved ==
    \/ \E k \in 1..Len(fnInput.targets.shapeTextTargets) :
          shapeIndexGet(fnInput.host.shapes, fnInput.targets.shapeTextTargets[k].shapeId) = 0
    \/ \E k \in 1..Len(fnInput.targets.tableCellTargets) :
          cellIndexGet(fnInput.host.cells, fnInput.targets.tableCellTargets[k].row,
                       fnInput.targets.tableCellTargets[k].col) = 0

\* C25: when a shape or a cell recorded at extraction is no longer on the
\* slide at write-back, applySlideTranslations completes, having skipped
\* that target only and written the other targets of the slide.
C25_UnresolvedSkipped ==
    (SlideApplied /\ Unresolved) =>
        /\ fnOutput[2].status = "done"
        /\ fnOutput[2].slide =
              applySlideTranslations(fnInput.host, fnInput.targets, fnInput.map,
                                     fnInput.keepLineBreaks)

----------------------------------------------------------------------------
\* The shape walk on its own: a shape tree and an exclusion filter

MaxSiblings == 2

\* RegExp.test for a filter made of literal characters: the pattern occurs
\* somewhere in the name
test(pattern, name) ==
    \E from \in 1..(Len(name) + 1) :
        /\ from + Len(pattern) - 1 <= Len(name)
        /\ \A j \in 1..Len(pattern) : name[from + j - 1] = pattern[j]

\* getGroupChildShapes(context, shape, logger, label): the items of the
\* first candidate collection that loads, [] when none does
getGroupChildShapes(sh) ==
    IF sh.enumerable THEN sh.children ELSE <<>>

RECURSIVE walkShapeItemsFilterLeavesOnly(_, _, _)
\* Mutant of walkShapeItems: the filter is not applied to groups.
walkShapeItemsFilterLeavesOnly(items, groupPath, ignore) ==
    IF items = <<>> THEN <<>>
    ELSE LET sh == Head(items)
             children == getGroupChildShapes(sh)
         IN  (IF sh.type = "group"
              THEN IF children = <<>> THEN <<>>
                   ELSE walkShapeItemsFilterLeavesOnly(children, Append(groupPath, sh.id),
                                                       ignore)
              ELSE IF ignore # Null /\ test(ignore[1], sh.name) THEN <<>>
              ELSE << [shapeId |-> sh.id, groupPath |-> groupPath] >>)
             \o walkShapeItemsFilterLeavesOnly(Tail(items), groupPath, ignore)

RECURSIVE walkShapeItems(_, _, _)
\* walkShapeItems(context, items, groupPath, groupNamePath, ignore, logger,
\* visitor): the sequence of visitor calls
walkShapeItems(items, groupPath, ignore) ==
    IF items = <<>> THEN <<>>
    ELSE LET sh == Head(items)
             children == getGroupChildShapes(sh)
         IN  (IF ignore # Null /\ test(ignore[1], sh.name) THEN <<>>
              ELSE IF sh.type = "group"
              THEN IF children = <<>> THEN <<>>
                   ELSE walkShapeItems(children, Append(groupPath, sh.id), ignore)
              ELSE << [shapeId |-> sh.id, groupPath |-> groupPath] >>)
             \o walkShapeItems(Tail(items), groupPath, ignore)

\* walkShapes(context, collection, ignore, logger, visitor)
walkShapes(items, ignore) ==
    IF items = <<>> THEN <<>> ELSE walkShapeItems(items, <<>>, ignore)

\* shape names, and the filters of the settings (none, or one that matches
\* the second name)
PlainName == <<"A">>
LogoName == <<"L", "o">>
ShapeNames == {PlainName, LogoName}
IgnoreFilters == {Null, Some(<<"L">>)}

\* a shape of the host; ids are given by the place in the tree, so that
\* they are distinct on the slide
hostShape(name) ==
    [name |-> name, type |-> "shape", enumerable |-> TRUE, children |-> <<>>]
hostGroup(name, enumerable, children) ==
    [name |-> name, type |-> "group", enumerable |-> enumerable, children |-> children]

LeafShapes == {hostShape(n) : n \in ShapeNames}
LeafLists == SeqsUpTo(LeafShapes, MaxSiblings)
InnerShapes ==
    LeafShapes
        \cup {hostGroup(n, TRUE, c) : n \in ShapeNames, c \in LeafLists}
        \cup {hostGroup(n, FALSE, c) : n \in ShapeNames, c \in SeqsUpTo(LeafShapes, 1)}
InnerLists == SeqsUpTo(InnerShapes, MaxSiblings)
OuterGroups == {hostGroup(n, TRUE, c) : n \in ShapeNames, c \in SeqsUpTo(InnerShapes, 1)}
ShapeTrees ==
    InnerLists
        \cup {<<g>> : g \in OuterGroups}
        \cup {<<g, x>> : g \in OuterGroups, x \in InnerShapes}

RECURSIVE withIds(_, _)
\* the tree with each shape's id set to its place, as a string of digits
withIds(items, prefix) ==
    [k \in 1..Len(items) |->
        LET id == Append(prefix, IF k = 1 THEN "1" ELSE IF k = 2 THEN "2" ELSE "3")
        IN  [id |-> id, name |-> items[k].name, type |-> items[k].type,
             enumerable |-> items[k].enumerable,
             children |-> withIds(items[k].children, id)]]

InitWalk ==
    /\ phase = "walk"
    /\ charFonts = <<>> /\ unreadable = {}
    /\ RunsIdle
    /\ ExtractIdle
    /\ \E t \in ShapeTrees, f \in IgnoreFilters :
         fnInput = [items |-> withIds(t, <<>>), ignore |-> f]
    /\ fnOutput = <<>>
    /\ ScopeIdle

WalkShapes ==
    /\ phase = "walk"
    /\ fnOutput = <<>>
    /\ fnOutput' = <<"walked", walkShapes(fnInput.items, fnInput.ignore)>>
    /\ UNCHANGED <<phase, pane, hostVars, runVars, extractVars, fnInput, scopeVars>>

SpecWalk == InitWalk /\ [][WalkShapes]_vars

----------------------------------------------------------------------------
\* Properties of the shape walk

Walked == phase = "walk" /\ fnOutput # <<>>

RECURSIVE shapesUnder(_)
\* every shape of the tree, groups included
shapesUnder(items) ==
    {items[k] : k \in 1..Len(items)}
        \cup UNION {shapesUnder(items[k].children) : k \in 1..Len(items)}

AllShapes == shapesUnder(fnInput.items)

\* ids are places: the ancestors of a shape are the shapes whose id is a
\* proper prefix of its id
IsProperPrefix(a, b) == Len(a) < Len(b) /\ \A j \in 1..Len(a) : a[j] = b[j]
Ancestors(sh) == {g \in AllShapes : IsProperPrefix(g.id, sh.id)}
AncestorIds(sh) == [j \in 1..(Len(sh.id) - 1) |-> SubSeq(sh.id, 1, j)]

Filtered(sh) == fnInput.ignore # Null /\ test(fnInput.ignore[1], sh.name)

Visitable(sh) ==
    /\ sh.type # "group"
    /\ ~Filtered(sh)
    /\ \A g \in Ancestors(sh) : ~Filtered(g) /\ g.enumerable

\* document order of two places
Before(a, b) ==
    \/ IsProperPrefix(a, b)
    \/ \E j \in 1..Len(a) :
          /\ j <= Len(b)
          /\ \A i \in 1..(j - 1) : a[i] = b[i]
          /\ ((a[j] = "1" /\ b[j] # "1") \/ (a[j] = "2" /\ b[j] = "3"))

\* C26: the walk visits exactly the non-group shapes that are not matched
\* by the filter, have no ancestor matched by the filter and have only
\* enumerable ancestors; each once, in document order, with the ids of its
\* ancestor groups as group path.
C26_WalkVisitsExactly ==
    Walked =>
        LET out == fnOutput[2]
        IN  /\ \A sh \in AllShapes :
                  Visitable(sh) <=> \E k \in 1..Len(out) : out[k].shapeId = sh.id
            /\ \A k, l \in 1..Len(out) :
                  k < l => Before(out[k].shapeId, out[l].shapeId)
            /\ \A k \in 1..Len(out) :
                  \E sh \in AllShapes :
                      sh.id = out[k].shapeId /\ out[k].groupPath = AncestorIds(sh)

C26_Witness ==
    /\ Walked
    /\ \E k \in 1..Len(fnOutput[2]) : Len(fnOutput[2][k].groupPath) = 2
    /\ \E sh \in AllShapes : Filtered(sh) /\ \A a \in Ancestors(sh) : ~Filtered(a)
    /\ \E g \in AllShapes : g.type = "group" /\ ~g.enumerable /\ ~Filtered(g)
                               /\ g.children # <<>>

----------------------------------------------------------------------------
\* translateBatch on one chunk, and what translateAndMaybeApplySlide does
\* with its results (openai.ts, ppt.ts)
\*
\* A response is [ok, out, hasItems, items]: the HTTP status, the output
\* text ("empty", "garbage" that JSON.parse rejects, or "json"), whether
\* the parsed value has an items array, and that array.  The values of a
\* run of the response are JSON values [type, value].

JNumber(digits) == [type |-> "number", value |-> digits]
JString(chars) == [type |-> "string", value |-> chars]

BatchItemA == [paragraphId |-> paragraphId(0, <<"7">>, 0),
               runs |-> <<[index |-> 0, text |-> WordText]>>]
BatchItemB == [paragraphId |-> cellId(0, TableShapeId, 0, 0),
               runs |-> <<[index |-> 0, text |-> <<"Y", "o">>]>>]

ResponseRuns ==
    {<<[index |-> JNumber(<<"0">>), text |-> JString(<<"U">>)]>>,
     <<[index |-> JString(<<"0">>), text |-> JString(<<"U">>)]>>,
     <<[index |-> JNumber(<<"0">>), text |-> JNumber(<<"5">>)]>>}

ResponseEntries ==
    [paragraphId : {BatchItemA.paragraphId, BatchItemB.paragraphId},
     translatedRuns : ResponseRuns]

Responses ==
    {[ok |-> FALSE, out |-> "json", hasItems |-> FALSE, items |-> <<>>],
     [ok |-> TRUE, out |-> "empty", hasItems |-> FALSE, items |-> <<>>],
     [ok |-> TRUE, out |-> "garbage", hasItems |-> FALSE, items |-> <<>>],
     [ok |-> TRUE, out |-> "json", hasItems |-> FALSE, items |-> <<>>]}
        \cup {[ok |-> TRUE, out |-> "json", hasItems |-> TRUE, items |-> e] :
                  e \in SeqsUpTo(ResponseEntries, 2)}

\* translateBatch(items, settings) given the response of the provider
translateBatch(items, hasKey, response) ==
    IF ~hasKey THEN [thrown |-> TRUE, results |-> <<>>]
    ELSE IF items = <<>> THEN [thrown |-> FALSE, results |-> <<>>]
    ELSE IF ~response.ok THEN [thrown |-> TRUE, results |-> <<>>]
    ELSE IF response.out = "empty" THEN [thrown |-> TRUE, results |-> <<>>]
    ELSE IF response.out = "garbage" THEN [thrown |-> TRUE, results |-> <<>>]
    ELSE IF ~response.hasItems THEN [thrown |-> TRUE, results |-> <<>>]
    ELSE [thrown |-> FALSE, results |-> response.items]

InitBatch ==
    /\ phase = "batch"
    /\ charFonts = <<>> /\ unreadable = {}
    /\ RunsIdle
    /\ ExtractIdle
    /\ \E items \in {<<>>, <<BatchItemA>>, <<BatchItemA, BatchItemB>>},
          hasKey \in BOOLEAN, response \in Responses :
         fnInput = [items |-> items, hasKey |-> hasKey, response |-> response]
    /\ fnOutput = <<>>
    /\ ScopeIdle

\* One chunk of a slide: translateBatch, then the loop that stores the
\* results in the cache and fans them out, then the result mapping.  A
\* throw of translateBatch rejects the invocation before that loop.
TranslateBatch ==
    /\ phase = "batch"
    /\ fnOutput = <<>>
    /\ \E d \in {dedupe(fnInput.items, EmptyMap)} :
       \E b \in {translateBatch(fnInput.items, fnInput.hasKey, fnInput.response)} :
       \E fo \in {fanOutLoop(b.results, d.idToKey, d.keyToIds,
                              [cache |-> EmptyMap, allResults |-> <<>>])} :
         fnOutput' = <<"batch",
                       IF b.thrown
                       THEN [thrown |-> TRUE, results |-> <<>>,
                             cache |-> EmptyMap, map |-> EmptyMap]
                       ELSE [thrown |-> FALSE, results |-> b.results,
                             cache |-> fo.cache, map |-> resultMap(fo.allResults)]>>
    /\ UNCHANGED <<phase, pane, hostVars, runVars, extractVars, fnInput, scopeVars>>

SpecBatch == InitBatch /\ [][TranslateBatch]_vars

----------------------------------------------------------------------------
\* Properties of translateBatch

BatchDone == phase = "batch" /\ fnOutput # <<>>

\* the item/run shape {paragraphId: string, translatedRuns: [{index:
\* integer, text: string}]}
RunConforms(run) == run.index.type = "number" /\ run.text.type = "string"
EntryConforms(e) == \A j \in 1..Len(e.translatedRuns) : RunConforms(e.translatedRuns[j])
ResponseConforms ==
    /\ fnInput.response.out = "json"
    /\ fnInput.response.hasItems
    /\ \A k \in 1..Len(fnInput.response.items) : EntryConforms(fnInput.response.items[k])

\* C27: a response that cannot be parsed or that does not match the
\* item/run shape fails the whole chunk: translateBatch returns no result
\* and nothing of the response reaches the cache or the result mapping.
C27_MalformedResponseFailsChunk ==
    (BatchDone /\ fnInput.hasKey /\ fnInput.items # <<>> /\ fnInput.response.ok
       /\ ~ResponseConforms) =>
        /\ fnOutput[2].thrown
        /\ fnOutput[2].results = <<>>
        /\ fnOutput[2].cache = EmptyMap
        /\ fnOutput[2].map = EmptyMap

----------------------------------------------------------------------------
\* Properties of the workers when one request never settles

ChunkIndexes == 1..Concurrency

LastSlide == Len(deck) - 1

Claimed(c) ==
    \E k \in 1..Len(hist.claims) :
        hist.claims[k].slide = LastSlide /\ hist.claims[k].chunk = c
Issued(c) ==
    \E k \in 1..Len(hist.requests) :
        hist.requests[k].slide = LastSlide /\ hist.requests[k].chunk = c
Completed(c) == \E r \in hist.responses : r.slide = LastSlide /\ r.chunk = c

\* the first chunk's request is in flight, next to at least one more worker
StalledAmongWorkers ==
    /\ phase = "scope" /\ pc = "chunks"
    /\ ctx.targets.slideIndex = LastSlide
    /\ Len(ctx.workers) >= 2
    /\ \E w \in 1..Len(ctx.workers) : ctx.workers[w] = 0

\* C28: when the request of one chunk never completes and there are at
\* least two workers, every other chunk of the slide is eventually claimed,
\* its request issued, and completed.
C28_OtherChunksComplete ==
    \A c \in ChunkIndexes :
        (StalledAmongWorkers /\ c < Len(ctx.chunks))
            ~> (Claimed(c) /\ Issued(c) /\ Completed(c))

C28_Witness ==
    /\ StalledAmongWorkers
    /\ Len(ctx.chunks) = 4
    /\ \A c \in ChunkIndexes : Claimed(c) /\ Issued(c) /\ Completed(c)
    /\ ~Completed(0)

----------------------------------------------------------------------------
\* The ids of two targets of one invocation

SlideIndexes == {0, 1, 11}
HostShapeIds == {<<"1">>, <<"2">>, <<"1", "2">>}
GroupPaths == {<<>>, << <<"1">> >>, << <<"1">>, <<"2">> >>, << <<"1", "2">> >>}
Positions == {0, 1, 11}
CellPositions == {1, 11}

\* what extraction knows of a paragraph or a cell: the slide, the shape and
\* its groups, and the place in the shape
TargetPlaces ==
    [kind : {"paragraph"}, slideIndex : SlideIndexes, groupPath : GroupPaths,
     shapeId : HostShapeIds, p : Positions, row : {0}, col : {0}]
        \cup [kind : {"cell"}, slideIndex : SlideIndexes, groupPath : GroupPaths,
               shapeId : HostShapeIds, p : {0}, row : CellPositions, col : CellPositions]

\* the id extractSlideTargets gives to the target
targetId(t) ==
    IF t.kind = "paragraph"
    THEN paragraphId(t.slideIndex, shapeKey(t.shapeId, t.groupPath), t.p)
    ELSE cellId(t.slideIndex, shapeKey(t.shapeId, t.groupPath), t.row, t.col)

InitIds ==
    /\ phase = "ids"
    /\ charFonts = <<>> /\ unreadable = {}
    /\ RunsIdle
    /\ ExtractIdle
    /\ \E a \in TargetPlaces, b \in TargetPlaces : fnInput = [a |-> a, b |-> b]
    /\ fnOutput = <<>>
    /\ ScopeIdle

AssignIds ==
    /\ phase = "ids"
    /\ fnOutput = <<>>
    /\ fnOutput' = <<"ids", [a |-> targetId(fnInput.a), b |-> targetId(fnInput.b)]>>
    /\ UNCHANGED <<phase, pane, hostVars, runVars, extractVars, fnInput, scopeVars>>

SpecIds == InitIds /\ [][AssignIds]_vars

IdsAssigned == phase = "ids" /\ fnOutput # <<>>

\* C29: the id of a paragraph or a cell is a function of its slide index,
\* its shape key and its position, and two different targets of one
\* invocation never get the same id.
C29_IdsDistinct ==
    IdsAssigned =>
        /\ fnOutput[2].a = targetId(fnInput.a)
        /\ fnInput.a # fnInput.b => fnOutput[2].a # fnOutput[2].b

C29_Witness ==
    /\ IdsAssigned
    /\ fnInput.a.kind = "paragraph" /\ fnInput.b.kind = "paragraph"
    /\ fnInput.a.slideIndex = fnInput.b.slideIndex
    /\ fnInput.a.p = fnInput.b.p
    /\ fnInput.a.groupPath = << <<"1">> >> /\ fnInput.a.shapeId = <<"2">>
    /\ fnInput.b.groupPath = <<>> /\ fnInput.b.shapeId = <<"1", "2">>
    /\ fnOutput[2].a # fnOutput[2].b

----------------------------------------------------------------------------
\* Properties of the recursion of extractRunsByBinarySplit

SplitDone == phase = "runs" /\ detected.by = "split"

\* the leaf spans of the split of the paragraph, by start
Leaves == sortSpans(split(charFonts, unreadable, paragraphStart, Len(paragraphText)))

\* a range of this length that is not a leaf is cut in two shorter,
\* non-empty ranges
CutsShorter(length) ==
    /\ midOf(length) >= 1 /\ midOf(length) < length
    /\ length - midOf(length) >= 1 /\ length - midOf(length) < length

\* the leaves cover [paragraphStart, paragraphStart + n) in order, one
\* starting where the previous one ends
Tiles(spans, from, to) ==
    /\ spans # <<>>
    /\ spans[1].start = from
    /\ \A k \in 1..(Len(spans) - 1) : spans[k + 1].start = spans[k].start + spans[k].length
    /\ spans[Len(spans)].start + spans[Len(spans)].length = to
    /\ \A k \in 1..Len(spans) : spans[k].length >= 1

\* C30: for every paragraph of length n >= 1 and every host, the split
\* returns; every cut gives two strictly shorter non-empty ranges; a range
\* of one character is a leaf even when the host reports it as mixed; and
\* the leaves tile [paragraphStart, paragraphStart + n) (one fetch per call
\* of a binary recursion: twice the leaves minus one).
C30_SplitTerminatesAndTiles ==
    SplitDone =>
        /\ \A length \in 2..Len(paragraphText) : CutsShorter(length)
        /\ Tiles(Leaves, paragraphStart, paragraphStart + Len(paragraphText))
        /\ detected.fetches = 2 * Len(Leaves) - 1
        /\ unreadable # {} =>
              /\ Len(Leaves) = Len(paragraphText)
              /\ \A k \in 1..Len(Leaves) : Leaves[k].length = 1

C30_Witness ==
    /\ SplitDone
    /\ paragraphText = ScenarioText
    /\ paragraphStart = PrefixLen
    /\ unreadable # {}
    /\ Len(Leaves) = Len(ScenarioText)
    /\ detected.fetches = 2 * Len(ScenarioText) - 1

----------------------------------------------------------------------------
\* extractParagraphFormat on its own (formatting.ts)
\*
\* The host is given by the attributes it can load (a load that names an
\* attribute it cannot load makes the whole context.sync throw), by whether
\* it has PowerPointApi 1.10, and by the value of each attribute (Null
\* when the host reports null).  Reading an attribute that was not loaded
\* throws.

FormatAttrs ==
    {"indentLevel", "bulletVisible", "horizontalAlignment", "bulletType", "bulletStyle"}
BasicAttrs == {"indentLevel", "bulletVisible", "horizontalAlignment"}
BulletDetails == {"bulletType", "bulletStyle"}

\* range.load(props); await context.sync(): the attributes now loaded
loadAll(props, supported) == IF props \subseteq supported THEN props ELSE {}

\* the attributes loaded after the first load and, when it throws, the
\* three loads of the catch block
loadedFormat(supported, wantsBulletDetails) ==
    LET rich == BasicAttrs \cup (IF wantsBulletDetails THEN BulletDetails ELSE {})
    IN  IF rich \subseteq supported THEN rich
        ELSE loadAll({"indentLevel", "bulletVisible"}, supported)
                \cup loadAll({"horizontalAlignment"}, supported)
                \cup (IF wantsBulletDetails THEN loadAll(BulletDetails, supported) ELSE {})

\* extractParagraphFormat(context, range): the keys set on out and their
\* values; undefined when out has no key
extractParagraphFormat(supported, wantsBulletDetails, values) ==
    LET attempted == BasicAttrs \cup (IF wantsBulletDetails THEN BulletDetails ELSE {})
        keys == attempted \cap loadedFormat(supported, wantsBulletDetails)
    IN  IF keys = {} THEN [defined |-> FALSE, out |-> <<>>]
        ELSE [defined |-> TRUE, out |-> [a \in keys |-> values[a]]]

HostFormatValues ==
    {[indentLevel |-> i, bulletVisible |-> b, horizontalAlignment |-> Some("Left"),
      bulletType |-> Some("Unnumbered"), bulletStyle |-> Null] :
        i \in {Null, Some("1")}, b \in {Null, Some("true")}}

InitFormat ==
    /\ phase = "format"
    /\ charFonts = <<>> /\ unreadable = {}
    /\ RunsIdle
    /\ ExtractIdle
    /\ \E supported \in SUBSET FormatAttrs, wants \in BOOLEAN, values \in HostFormatValues :
         fnInput = [supported |-> supported, wantsBulletDetails |-> wants,
                    values |-> values]
    /\ fnOutput = <<>>
    /\ ScopeIdle

ExtractFormat ==
    /\ phase = "format"
    /\ fnOutput = <<>>
    /\ fnOutput' = <<"format", extractParagraphFormat(fnInput.supported,
                                                      fnInput.wantsBulletDetails,
                                                      fnInput.values)>>
    /\ UNCHANGED <<phase, pane, hostVars, runVars, extractVars, fnInput, scopeVars>>

SpecFormat == InitFormat /\ [][ExtractFormat]_vars

FormatDone == phase = "format" /\ fnOutput # <<>>

\* the attributes the function asks for and the host can give
Readable ==
    (BasicAttrs \cup (IF fnInput.wantsBulletDetails THEN BulletDetails ELSE {}))
        \cap fnInput.supported

\* C31: the snapshot is undefined only when no attribute could be read,
\* and every attribute that the host can give is recorded with its value,
\* whatever happens to the other attributes.
C31_EachAttributeIndependent ==
    FormatDone =>
        /\ ~fnOutput[2].defined => Readable = {}
        /\ \A a \in Readable :
              /\ fnOutput[2].defined
              /\ a \in DOMAIN fnOutput[2].out
              /\ fnOutput[2].out[a] = fnInput.values[a]

----------------------------------------------------------------------------
\* Properties of a failing chunk request

ChunkFailed == phase = "scope" /\ hist.failed # {}

\* a fingerprint of the slide that is in the cache was put there by a slide
\* finished before it
CachedByEarlierSlide(s, key) ==
    \E s2 \in DOMAIN hist.maps :
        /\ s2 < s
        /\ \E i \in 1..Len(hist.items[s2]) : translateKey(hist.items[s2][i]) = key

FailedSlideUntouched ==
    \A f \in hist.failed :
        /\ deck[f.slide + 1] = hist.original[f.slide + 1]
        /\ f.slide \notin DOMAIN hist.maps
        /\ \A i \in 1..Len(hist.items[f.slide]) :
              translateKey(hist.items[f.slide][i]) \in DOMAIN translationCache
                  => CachedByEarlierSlide(f.slide, translateKey(hist.items[f.slide][i]))
        /\ \A i \in 1..Len(hist.reads) : hist.reads[i] <= f.slide
        /\ pc = "failed"
        /\ status = StatusError

NothingAfterFailure ==
    ChunkFailed =>
        /\ deck' = deck
        /\ translationCache' = translationCache
        /\ hist'.reads = hist.reads
        /\ hist'.maps = hist.maps

\* C32: when a chunk request of a slide fails the invocation rejects; the
\* slide is not written, none of its fingerprints enters the cache (also
\* not those of its chunks that succeeded), no later slide is read, and
\* the slides written before keep their text.
C32_FailureWritesNothing ==
    /\ [](ChunkFailed => FailedSlideUntouched)
    /\ [][NothingAfterFailure]_vars

C32_Witness ==
    /\ ChunkFailed
    /\ settings.apiKey /\ settings.mode = "apply"
    /\ slidePos = 1 /\ Len(deck) = MaxSlides
    /\ deck[1] # hist.original[1]
    /\ \E r \in hist.responses : r.slide = 1 /\ r.res # <<>>
    /\ \A w \in 1..Len(ctx.workers) : ctx.workers[w] = -1

----------------------------------------------------------------------------
\* Properties of a cancellation while the requests of a slide are in flight

CancelledMidSlide == ScopeDone /\ CancelledInChunks /\ settings.mode = "apply"

\* the fingerprints of the items sent for the slide
DispatchedKeys(s) ==
    {translateKey(hist.requests[i].items[j]) :
        <<i, j>> \in {t \in RequestsOfSlide(s) \X (1..DefaultMaxItems) :
                        t[2] <= Len(hist.requests[t[1]].items)}}

\* an item of the slide that was neither sent nor answered from the cache
Undispatched(s, item) ==
    /\ translateKey(item) \notin DispatchedKeys(s)
    /\ ~CachedByEarlierSlide(s, translateKey(item))

\* the cell of the slide with this id, as it is now and as it was before
CellsWithId(s, id) ==
    {c \in 1..Len(deck[s + 1].cells) :
        cellId(s, TableShapeId, deck[s + 1].cells[c].row, deck[s + 1].cells[c].col) = id}

----------------------------------------------------------------------------
\* One slide whose chunk requests complete in any order, the provider's
\* answer to each chunk being fixed beforehand

\* the answers a chunk can get: a result for each of its items, no result,
\* a result under the id of an item of the next chunk, a result under an
\* id that was not sent
AnswerKinds == {"all", "none", "other", "unknown"}

UnknownId == cellId(0, TableShapeId, 9, 9)

answerOf(kind, chunks, c) ==
    IF kind = "all" \/ kind = "none" THEN respond(kind, chunks[c + 1])
    ELSE << [paragraphId |-> IF kind = "unknown" THEN UnknownId
                             ELSE chunks[((c + 1) % Len(chunks)) + 1][1].paragraphId,
             translatedRuns |-> <<[index |-> 0, text |-> <<"X", ToString(c)>>]>>] >>

OrderItems == buildTranslateItems(extractSlideTargets(0, LongSlide, {}, TRUE).targets)
OrderDedupe == dedupe(OrderItems, EmptyMap)
OrderChunks == chunkByChars(OrderDedupe.pending, DefaultMaxChars, DefaultMaxItems)

InitOrder ==
    /\ phase = "order"
    /\ charFonts = <<>> /\ unreadable = {}
    /\ RunsIdle
    /\ ExtractIdle
    /\ fnInput \in [1..Len(OrderChunks) -> AnswerKinds]
    /\ \E st \in {startWorkers(Min(Concurrency, Len(OrderChunks)), OrderChunks, FALSE,
                                 [workers |-> <<>>, cursor |-> 0, sent |-> <<>>])} :
         fnOutput = <<"inflight", [workers |-> st.workers, cursor |-> st.cursor,
                                   results |-> <<>>, order |-> <<>>]>>
    /\ ScopeIdle

\* the request of worker w returns: push of the results, next claim
CompleteChunk(w) ==
    /\ phase = "order"
    /\ fnOutput[1] = "inflight"
    /\ w \in 1..Len(fnOutput[2].workers)
    /\ fnOutput[2].workers[w] >= 0
    /\ \E c \in {claimNext(OrderChunks, fnOutput[2].cursor, FALSE)} :
         fnOutput' = <<"inflight",
                       [workers |-> [fnOutput[2].workers EXCEPT ![w] = c.worker],
                        cursor |-> c.cursor,
                        results |-> fnOutput[2].results
                                      \o answerOf(fnInput[fnOutput[2].workers[w] + 1],
                                                  OrderChunks, fnOutput[2].workers[w]),
                        order |-> Append(fnOutput[2].order, fnOutput[2].workers[w])]>>
    /\ UNCHANGED <<phase, pane, hostVars, runVars, extractVars, fnInput, scopeVars>>

\* translateChunks has returned: cache and fan-out, result mapping
FinishOrder ==
    /\ phase = "order"
    /\ fnOutput[1] = "inflight"
    /\ \A w \in 1..Len(fnOutput[2].workers) : fnOutput[2].workers[w] = -1
    /\ \E fo \in {fanOutLoop(fnOutput[2].results, OrderDedupe.idToKey, OrderDedupe.keyToIds,
                               [cache |-> EmptyMap, allResults |-> OrderDedupe.allResults])} :
         fnOutput' = <<"done", [map |-> resultMap(fo.allResults), cache |-> fo.cache,
                                order |-> fnOutput[2].order]>>
    /\ UNCHANGED <<phase, pane, hostVars, runVars, extractVars, fnInput, scopeVars>>

NextOrder ==
    \/ \E w \in 1..Concurrency : CompleteChunk(w)
    \/ FinishOrder

SpecOrder == InitOrder /\ [][NextOrder]_vars

OrderDone == phase = "order" /\ fnOutput[1] = "done"

RECURSIVE answersInIndexOrder(_)
answersInIndexOrder(c) ==
    IF c >= Len(OrderChunks) THEN <<>>
    ELSE answerOf(fnInput[c + 1], OrderChunks, c) \o answersInIndexOrder(c + 1)

\* cache and fan-out of the answers taken in the order of the chunks
InIndexOrder ==
    fanOutLoop(answersInIndexOrder(0), OrderDedupe.idToKey, OrderDedupe.keyToIds,
               [cache |-> EmptyMap, allResults |-> OrderDedupe.allResults])

SameAsInIndexOrder ==
    /\ fnOutput[2].map = resultMap(InIndexOrder.allResults)
    /\ fnOutput[2].cache = InIndexOrder.cache

\* no id is answered by two chunks
AnsweredOnce ==
    \A c1, c2 \in 0..(Len(OrderChunks) - 1) :
        c1 # c2 =>
            \A i \in 1..Len(answerOf(fnInput[c1 + 1], OrderChunks, c1)) :
            \A j \in 1..Len(answerOf(fnInput[c2 + 1], OrderChunks, c2)) :
                answerOf(fnInput[c1 + 1], OrderChunks, c1)[i].paragraphId
                    # answerOf(fnInput[c2 + 1], OrderChunks, c2)[j].paragraphId

\* C34 (as stated): for a fixed answer per chunk, the result mapping and
\* the cache entries of the slide are the same for every order in which
\* the requests complete.
C34_AnyAnswersOrderFree == OrderDone => SameAsInIndexOrder

\* C34 (amended): for a fixed answer per chunk in which no paragraph id is
\* answered by two different chunks, the result mapping and the cache
\* entries of the slide are the same for every order in which the requests
\* complete.
C34_OrderFreeWhenAnsweredOnce == (OrderDone /\ AnsweredOnce) => SameAsInIndexOrder

C34_Witness ==
    /\ OrderDone /\ AnsweredOnce
    /\ fnOutput[2].order = <<2, 1, 0, 3>>
    /\ Cardinality(DOMAIN fnOutput[2].map) = Len(OrderChunks)
    /\ SameAsInIndexOrder

----------------------------------------------------------------------------
\* translateAndMaybeApplySlide on one slide in apply mode, given the cache
\* and what translateChunks returns

\* two cells with the same word, a cell with another word, a cell that is
\* not translatable
QuadSlide ==
    [shapes |-> <<>>,
     cells |-> << shortCell(0, 0, <<WordText>>), shortCell(0, 1, <<WordText>>),
                  shortCell(1, 0, << <<"Y", "o">> >>), shortCell(1, 1, <<PercentText>>) >>]

QuadTargets == extractSlideTargets(0, QuadSlide, {}, TRUE).targets

QuadCaches == {EmptyMap, MapSet(EmptyMap, << <<"Y", "o">> >>, <<[index |-> 0, text |-> <<"C">>]>>)}

ReturnedIds ==
    {cellId(0, TableShapeId, r, c) : r \in 0..1, c \in 0..1} \cup {UnknownId}

ReturnedResults ==
    [paragraphId : ReturnedIds,
     translatedRuns : {<<[index |-> 0, text |-> <<"U">>]>>, <<[index |-> 0, text |-> <<"V">>]>>}]

InitSlide ==
    /\ phase = "slide"
    /\ charFonts = <<>> /\ unreadable = {}
    /\ RunsIdle
    /\ ExtractIdle
    /\ \E cacheBefore \in QuadCaches, translated \in SeqsUpTo(ReturnedResults, MaxRuns) :
         fnInput = [cache |-> cacheBefore, translated |-> translated]
    /\ fnOutput = <<>>
    /\ ScopeIdle

TranslateSlide ==
    /\ phase = "slide"
    /\ fnOutput = <<>>
    /\ \E dd \in {dedupe(buildTranslateItems(QuadTargets), fnInput.cache)} :
       \E fo \in {fanOutLoop(fnInput.translated, dd.idToKey, dd.keyToIds,
                              [cache |-> fnInput.cache, allResults |-> dd.allResults])} :
       \E map \in {resultMap(fo.allResults)} :
         fnOutput' = <<"slide",
                       [pending |-> dd.pending, map |-> map, cache |-> fo.cache,
                        translated |-> Cardinality(DOMAIN map),
                        slide |-> applySlideTranslations(QuadSlide, QuadTargets, map, TRUE)]>>
    /\ UNCHANGED <<phase, pane, hostVars, runVars, extractVars, fnInput, scopeVars>>

SpecSlide == InitSlide /\ [][TranslateSlide]_vars

SlideTranslated == phase = "slide" /\ fnOutput # <<>>

ItemIds ==
    {buildTranslateItems(QuadTargets)[i].paragraphId :
        i \in 1..Len(buildTranslateItems(QuadTargets))}

PendingIds == {fnOutput[2].pending[i].paragraphId : i \in 1..Len(fnOutput[2].pending)}

\* the results returned under the id of a pending item
Accepted ==
    {k \in 1..Len(fnInput.translated) : fnInput.translated[k].paragraphId \in PendingIds}

\* C35: every key of the slide's mapping is the id of an item of the slide;
\* when no result is returned under the id of a pending item, the cache is
\* as before, the mapping holds the cached items only and the slide is
\* written from them alone, so a result under any other id is neither
\* cached nor applied; the translated count is the number of keys.
C35_MapKeysAreItemIds ==
    SlideTranslated =>
        /\ DOMAIN fnOutput[2].map \subseteq ItemIds
        /\ fnOutput[2].translated = Cardinality(DOMAIN fnOutput[2].map)
        /\ DOMAIN fnOutput[2].cache \subseteq
              DOMAIN fnInput.cache
                \cup {translateKey(fnOutput[2].pending[i]) : i \in 1..Len(fnOutput[2].pending)}
        /\ Accepted = {} =>
              /\ fnOutput[2].cache = fnInput.cache
              /\ DOMAIN fnOutput[2].map =
                    {buildTranslateItems(QuadTargets)[n].paragraphId :
                        n \in {m \in 1..Len(buildTranslateItems(QuadTargets)) :
                                  translateKey(buildTranslateItems(QuadTargets)[m])
                                      \in DOMAIN fnInput.cache}}
              /\ \A c \in 1..Len(QuadSlide.cells) :
                    cellId(0, TableShapeId, QuadSlide.cells[c].row, QuadSlide.cells[c].col)
                        \notin DOMAIN fnOutput[2].map
                    => fnOutput[2].slide.cells[c] = QuadSlide.cells[c]
        /\ fnOutput[2].slide.cells[4] = QuadSlide.cells[4]

C35_Witness ==
    /\ SlideTranslated
    /\ fnInput.cache = EmptyMap
    /\ Len(fnInput.translated) = 2
    /\ fnInput.translated[1].paragraphId = cellId(0, TableShapeId, 0, 1)
    /\ fnInput.translated[2].paragraphId = cellId(0, TableShapeId, 1, 1)
    /\ fnOutput[2].map = EmptyMap
    /\ fnOutput[2].translated = 0
    /\ fnOutput[2].slide = QuadSlide

----------------------------------------------------------------------------
\* chunkByChars as a partition

\* the places of the chunks that hold this item
ChunksHolding(item) ==
    {<<i, j>> \in (1..Len(fnOutput[2])) \X (1..MaxItems + 1) :
         j <= Len(fnOutput[2][i]) /\ fnOutput[2][i][j] = item}

\* C36: the chunks are an order-preserving partition of the item list: no
\* chunk is empty, the chunks in order give the list back, and every item
\* is at one place of one chunk, also an item larger than maxChars.
C36_ChunksPartitionItems ==
    ChunksBuilt =>
        /\ \A i \in 1..Len(fnOutput[2]) : fnOutput[2][i] # <<>>
        /\ Concat(fnOutput[2]) = fnInput.items
        /\ \A k \in 1..Len(fnInput.items) :
              Cardinality(ChunksHolding(fnInput.items[k])) = 1

C36_Witness ==
    /\ ChunksBuilt
    /\ fnInput.maxChars = DefaultMaxChars
    /\ Len(fnInput.items) = 3
    /\ fnInput.items[1].originalChars = 7000
    /\ fnInput.items[2].originalChars = 12001
    /\ fnInput.items[3].originalChars = 1
    /\ Len(fnOutput[2]) = 3

====
